---- MODULE Spec2Model ----
(***************************************************************************)
(* Model of src/app.py: the token-keyed SessionStore, the per-session      *)
(* command lock and the Flask handlers /connect, /send, /info, /signals    *)
(* and /disconnect, each handler run by one of several worker threads.     *)
(*                                                                         *)
(* Every access to shared state (the registry dict under SessionStore._lock,*)
(* a session lock, a paramiko client, the clock, the random source) is one *)
(* step of the thread that makes it; purely local computation is folded    *)
(* into the step before it.                                                *)
(***************************************************************************)
EXTENDS Integers, FiniteSets, Sequences, TLC

\* -------------------------------------------------------------- scope
\* Two worker threads serve requests concurrently; over a run at most two
\* SSH connections are opened; the token source has two values to return.
Threads == {1, 2}
Conns   == {1, 2}
Tokens  == {1, 2}

\* The clock advances at most MaxTicks times, by TickSeconds each time.
MaxTicks == 2

\* AT commands handed to the command wrapper have at most MaxCmdLen characters.
MaxCmdLen == 3

\* Diagnostic texts handed to the parser have at most MaxLines lines.
MaxLines == 3
MaxCalls == 3            \* calls of _parse_debug_output in a row

\* ------------------------------------------------- program constants
DefaultMaxAge == 1800    \* cleanup(max_age_seconds=1800)
NumSignalCmds == 3       \* /signals: ATI, AT^DEBUG?, AT^TEMP?
\* the commands of /signals, in the order of its three _run_at_command calls
SignalCmds == <<"ATI", "AT^DEBUG?", "AT^TEMP?">>

NoToken  == 0            \* a missing or empty token ("not token")
NoThread == 0            \* an unlocked threading.Lock
NoConn   == 0            \* None: no session / no client
NoIface  == ""           \* no interface read from a request yet

\* The interface named by the /connect request that opens each connection.
Ifaces   == <<"lte1", "lte2">>
TickSeconds == DefaultMaxAge     \* a tick is one max age long
MaxAges  == {DefaultMaxAge}      \* cleanup() is only called with its default

VARIABLES
    now,        \* time.time()
    sessions,   \* SessionStore._sessions: token -> SSHSession, a record of
                \* its client (a connection id) and its created_at
    storeLock,  \* SessionStore._lock: the thread holding it, or NoThread
    client,     \* paramiko client of each conn id: "none" | "open" | "closed"
    lock,       \* SSHSession.lock of each conn id: holder thread or NoThread
    issued,     \* every token the random source has returned so far
    removed,    \* every token whose session a remove(token) has popped
    closes,     \* number of close() calls made on each client
    pc,         \* where each thread is in its handler
    kind,       \* the request each thread serves
    tok,        \* the token of the request (or the token drawn by add)
    cn,         \* the session / client the thread holds a reference to
    created,    \* add: created_at of the SSHSession being built
    iface,      \* /connect: the interface of the request
    cmd,        \* /signals: index of the command being run (1..3)
    cutoff,     \* cleanup: cutoff = time.time() - max_age_seconds
    toRemove,   \* cleanup: to_remove
    rtok,       \* remove(token): its argument
    popped,     \* remove(token): the session popped, or NoConn
    sweptAt,    \* cleanup: the time.time() its cutoff was computed from
    swept,      \* cleanup: what its scan selected, token -> client
    res,        \* the response the handler returns
    call,       \* the call of a pure helper under study: its name and arguments
    ret,        \* what that call has returned
    lines,      \* _parse_debug_output: the lines of text its loop has not read yet
    parser,     \* _parse_debug_output: its locals (info, current_entry, ...)
    returned    \* the texts and snapshots of the calls of _parse_debug_output
                \* that returned before the one under way

server == <<now, sessions, storeLock, client, lock, issued, removed, closes,
            pc, kind, tok, cn, created, iface, cmd, cutoff, toRemove, rtok,
            popped, sweptAt, swept, res>>

pure == <<call, ret, lines, parser, returned>>

vars == <<server, pure>>

shared == <<now, sessions, storeLock, client, lock, issued, removed, closes>>

\* (faulty variant) the interface is not stored with the session
SSHSessionNoInterface(tk, c, i, t) ==
    [token |-> tk, client |-> c, interface |-> NoIface, created_at |-> t]

\* The SSHSession built by add for token tk, client c, interface i at time t
\* (host, username and port are those the client c was connected with). Its
\* lock and its client's state are lock[c], client[c].
SSHSession(tk, c, i, t) ==
    [token |-> tk, client |-> c, interface |-> i, created_at |-> t]

\* The registry dict ---------------------------------------------------
\* (faulty variant) the assignment replaces the dict by one holding only the new entry
DictPutAlone(d, k, v) == [x \in {k} |-> v]

\* self._sessions[token] = session
DictPut(d, k, v) == [x \in (DOMAIN d) \cup {k} |-> IF x = k THEN v ELSE d[x]]

\* (faulty variant) the entry is read but left in the dict
DictPopKeeps(d, k) == d

\* self._sessions.pop(token, None): the dict afterwards
DictPop(d, k) == [x \in (DOMAIN d) \ {k} |-> d[x]]

\* (faulty variant) an unknown key yields some registered session
DictGetSome(d, k) ==
    IF k \in DOMAIN d THEN d[k].client
    ELSE IF DOMAIN d = {} THEN NoConn
    ELSE d[CHOOSE x \in DOMAIN d : TRUE].client

\* (faulty variant) a session older than the max age is not returned
DictGetUnexpired(d, k) ==
    IF k \in DOMAIN d /\ now - d[k].created_at <= DefaultMaxAge
    THEN d[k].client ELSE NoConn

\* self._sessions.get(token), self._sessions.pop(token, None): the session
\* returned, named by its client, or None
DictGet(d, k) == IF k \in DOMAIN d THEN d[k].client ELSE NoConn

InitServer ==
    /\ now = 0
    /\ sessions = [x \in {} |-> NoConn]
    /\ storeLock = NoThread
    /\ client = [c \in Conns |-> "none"]
    /\ lock = [c \in Conns |-> NoThread]
    /\ issued = {}
    /\ removed = {}
    /\ closes = [c \in Conns |-> 0]
    /\ pc = [t \in Threads |-> "idle"]
    /\ kind = [t \in Threads |-> "none"]
    /\ tok = [t \in Threads |-> NoToken]
    /\ cn = [t \in Threads |-> NoConn]
    /\ created = [t \in Threads |-> 0]
    /\ iface = [t \in Threads |-> NoIface]
    /\ cmd = [t \in Threads |-> 0]
    /\ cutoff = [t \in Threads |-> 0]
    /\ toRemove = [t \in Threads |-> {}]
    /\ rtok = [t \in Threads |-> NoToken]
    /\ popped = [t \in Threads |-> NoConn]
    /\ sweptAt = [t \in Threads |-> 0]
    /\ swept = [t \in Threads |-> <<>>]
    /\ res = [t \in Threads |-> "none"]

\* No pure helper is under study while the server runs.
NoParse ==
    /\ lines = <<>>
    /\ parser = [info |-> <<>>, current_entry |-> {}]
    /\ returned = <<>>

NoCall ==
    /\ call = [fn |-> "none"]
    /\ ret = [done |-> FALSE]
    /\ NoParse

Init == InitServer /\ NoCall

\* (faulty variant) a lookup restarts the session's lifetime (sliding expiry)
DictAfterGetRefreshed(d, k) ==
    [x \in DOMAIN d |-> IF x = k THEN [d[x] EXCEPT !.created_at = now] ELSE d[x]]

\* self._sessions.get(token): the dict afterwards; a lookup writes nothing.
DictAfterGet(d, k) == d

\* The handler returns `r`: the afterwards state of a thread.
Return(th, r) ==
    /\ pc' = [pc EXCEPT ![th] = "done"]
    /\ res' = [res EXCEPT ![th] = r]

Goto(th, p) ==
    /\ pc' = [pc EXCEPT ![th] = p]
    /\ UNCHANGED res

\* ------------------------------------------------------ SessionStore

\* (faulty variant) the with block is left without releasing SessionStore._lock
ReleaseStoreForgets == UNCHANGED storeLock

\* Leaving a `with self._lock:` block releases the lock.
ReleaseStore == storeLock' = NoThread

\* with self._lock:  (threading.Lock.acquire blocks until the lock is free)
AcquireStore(th, from, to) ==
    /\ pc[th] = from
    /\ storeLock = NoThread
    /\ storeLock' = th
    /\ Goto(th, to)
    /\ UNCHANGED <<now, sessions, client, lock, issued, removed, closes,
                   kind, tok, cn, created, iface, cmd, cutoff, toRemove, rtok,
                   popped, sweptAt, swept>>

\* What follows the return of remove(token) in its three callers: the next
\* round of cleanup's loop (then /connect returns the token), the 502 of
\* /send, the answer of /disconnect.
AfterRemove(th) ==
    IF kind[th] = "connect"
    THEN IF toRemove[th] = {}
         THEN /\ Return(th, "token")
              /\ rtok' = [rtok EXCEPT ![th] = NoToken]
              /\ UNCHANGED toRemove
         ELSE \E t \in toRemove[th] :
                 /\ rtok' = [rtok EXCEPT ![th] = t]
                 /\ toRemove' = [toRemove EXCEPT ![th] = @ \ {t}]
                 /\ Goto(th, "rm_lock")
    ELSE /\ Return(th, IF kind[th] = "send" THEN "command_failed" ELSE "disconnected")
         /\ rtok' = [rtok EXCEPT ![th] = NoToken]
         /\ UNCHANGED toRemove

\* SessionStore.add, first part: the token is drawn and the SSHSession built.
AddNew(th, t) ==
    /\ pc[th] = "c_add"
    /\ created' = [created EXCEPT ![th] = now]
    /\ tok' = [tok EXCEPT ![th] = t]
    /\ issued' = issued \cup {t}
    /\ Goto(th, "add_lock")
    /\ UNCHANGED <<now, sessions, storeLock, client, lock, removed, closes,
                   kind, cn, iface, cmd, cutoff, toRemove, rtok, popped,
                   sweptAt, swept>>

AddAcquire(th) == AcquireStore(th, "add_lock", "add_put")

\* self._sessions[token] = session; the lock is released on leaving the with.
AddPut(th) ==
    /\ pc[th] = "add_put"
    /\ storeLock = th
    /\ sessions' = DictPut(sessions, tok[th], SSHSession(tok[th], cn[th], iface[th], created[th]))
    /\ ReleaseStore
    /\ created' = [created EXCEPT ![th] = 0]
    /\ iface' = [iface EXCEPT ![th] = NoIface]
    /\ Goto(th, "cl_begin")
    /\ UNCHANGED <<now, client, lock, issued, removed, closes, kind, tok,
                   cn, cmd, cutoff, toRemove, rtok, popped,
                   sweptAt, swept>>

\* SessionStore.get
GetAcquire(th) == AcquireStore(th, "get_lock", "get_lookup")

\* SessionStore.cleanup: cutoff = time.time() - max_age_seconds
CleanupBegin(th, max_age) ==
    /\ pc[th] = "cl_begin"
    /\ cutoff' = [cutoff EXCEPT ![th] = now - max_age]
    /\ sweptAt' = [sweptAt EXCEPT ![th] = now]
    /\ Goto(th, "cl_lock")
    /\ UNCHANGED <<shared, kind, tok, cn, created, iface, cmd, toRemove, rtok,
                   popped, swept>>

CleanupAcquire(th) == AcquireStore(th, "cl_lock", "cl_scan")

\* (faulty variant) a session exactly max_age old is selected too
ExpiredInclusive(th) ==
    {t \in DOMAIN sessions : sessions[t].created_at <= cutoff[th]}

\* if session.created_at < cutoff: to_remove.append(token)
Expired(th) ==
    {t \in DOMAIN sessions : sessions[t].created_at < cutoff[th]}

\* The scan under the lock; then the first round of the loop over to_remove.
CleanupScan(th) ==
    /\ pc[th] = "cl_scan"
    /\ storeLock = th
    /\ ReleaseStore
    /\ IF Expired(th) = {}
       THEN /\ Return(th, "token")
            /\ UNCHANGED <<toRemove, rtok>>
       ELSE \E t \in Expired(th) :
               /\ rtok' = [rtok EXCEPT ![th] = t]
               /\ toRemove' = [toRemove EXCEPT ![th] = Expired(th) \ {t}]
               /\ Goto(th, "rm_lock")
    /\ cutoff' = [cutoff EXCEPT ![th] = 0]
    /\ swept' = [swept EXCEPT ![th] = [t \in Expired(th) |-> sessions[t].client]]
    /\ UNCHANGED <<now, sessions, client, lock, issued, removed, closes,
                   kind, tok, cn, created, iface, cmd, popped, sweptAt>>

\* SessionStore.remove
RemoveAcquire(th) == AcquireStore(th, "rm_lock", "rm_pop")

\* session = self._sessions.pop(token, None); if nothing was popped, remove
\* returns at once.
RemovePop(th) ==
    /\ pc[th] = "rm_pop"
    /\ storeLock = th
    /\ sessions' = DictPop(sessions, rtok[th])
    /\ ReleaseStore
    /\ popped' = [popped EXCEPT ![th] = DictGet(sessions, rtok[th])]
    /\ IF DictGet(sessions, rtok[th]) # NoConn
       THEN /\ Goto(th, "rm_close")
            /\ UNCHANGED <<toRemove, rtok>>
       ELSE AfterRemove(th)
    /\ removed' = IF DictGet(sessions, rtok[th]) # NoConn
                  THEN removed \cup {rtok[th]} ELSE removed
    /\ UNCHANGED <<now, client, lock, issued, closes, kind, tok, cn,
                   created, iface, cmd, cutoff, sweptAt, swept>>

\* (faulty variant) close waits until no command holds the session's lock
RemoveCloseWaits(th, raises) ==
    /\ pc[th] = "rm_close"
    /\ lock[popped[th]] = NoThread
    /\ client' = [client EXCEPT ![popped[th]] = "closed"]
    /\ closes' = [closes EXCEPT ![popped[th]] = @ + 1]
    /\ popped' = [popped EXCEPT ![th] = NoConn]
    /\ AfterRemove(th)
    /\ UNCHANGED <<now, sessions, storeLock, lock, issued, removed, kind,
                   tok, cn, created, iface, cmd, cutoff, sweptAt, swept>>

\* (faulty variant) an exception of close leaves remove and the handler: Flask
\* answers 500
RemoveCloseRaises(th, raises) ==
    /\ pc[th] = "rm_close"
    /\ client' = [client EXCEPT ![popped[th]] = "closed"]
    /\ closes' = [closes EXCEPT ![popped[th]] = @ + 1]
    /\ popped' = [popped EXCEPT ![th] = NoConn]
    /\ IF raises
       THEN /\ Return(th, "internal_error")
            /\ UNCHANGED <<toRemove, rtok>>
       ELSE AfterRemove(th)
    /\ UNCHANGED <<now, sessions, storeLock, lock, issued, removed, kind,
                   tok, cn, created, iface, cmd, cutoff, sweptAt, swept>>

\* session.client.close() inside try/except Exception: pass. Whether or not
\* close raises, remove returns normally.
RemoveClose(th, raises) ==
    /\ pc[th] = "rm_close"
    /\ client' = [client EXCEPT ![popped[th]] = "closed"]
    /\ closes' = [closes EXCEPT ![popped[th]] = @ + 1]
    /\ popped' = [popped EXCEPT ![th] = NoConn]
    /\ AfterRemove(th)
    /\ UNCHANGED <<now, sessions, storeLock, lock, issued, removed, kind,
                   tok, cn, created, iface, cmd, cutoff, sweptAt, swept>>

\* ---------------------------------------------------------- handlers

Unused == {c \in Conns : client[c] = "none"}

\* The connection the next successful /connect opens, and the interface its
\* request names.
NextConn == CHOOSE x \in Unused : \A y \in Unused : x <= y

NextIface == IF Unused = {} THEN NoIface ELSE Ifaces[NextConn]

\* A command is executing on client c for thread th: between exec_command
\* and the end of stdout.read() / stderr.read() in _run_ros_cmd.
Executing(th, c) == pc[th] \in {"c_previewing", "x_run"} /\ cn[th] = c

\* /connect up to the start of the preview command: the required fields are
\* checked, paramiko connects, _run_ros_cmd(client, "ATI") is started.
Connect(th, valid, ok, i) ==
    /\ pc[th] = "idle"
    /\ kind' = [kind EXCEPT ![th] = "connect"]
    /\ IF ~valid
       THEN /\ Return(th, "missing_fields")
            /\ UNCHANGED <<client, cn>>
       ELSE IF ~ok \/ Unused = {}
       THEN /\ Return(th, "connect_failed")
            /\ UNCHANGED <<client, cn>>
       ELSE LET c == NextConn IN
            /\ client' = [client EXCEPT ![c] = "open"]
            /\ cn' = [cn EXCEPT ![th] = c]
            /\ Goto(th, "c_previewing")
    /\ iface' = [iface EXCEPT ![th] = IF valid /\ ok /\ Unused # {} THEN i ELSE NoIface]
    /\ UNCHANGED <<now, sessions, storeLock, lock, issued, removed, closes,
                   tok, cmd, cutoff, toRemove, rtok, popped, sweptAt,
                   swept, created>>

\* (faulty variant) a failed preview answers 500 and leaves the client open
PreviewFinishLeaks(th, ok) ==
    /\ pc[th] = "c_previewing"
    /\ IF ok THEN Goto(th, "c_add") ELSE Return(th, "preview_failed")
    /\ UNCHANGED <<now, sessions, storeLock, client, lock, issued, removed,
                   closes, kind, tok, cn, created, iface, cmd, cutoff,
                   toRemove, rtok, popped, sweptAt, swept>>

\* The preview command returns, or raises: then client.close() and a 500.
PreviewFinish(th, ok) ==
    /\ pc[th] = "c_previewing"
    /\ IF ok
       THEN /\ Goto(th, "c_add")
            /\ UNCHANGED <<client, closes>>
       ELSE /\ client' = [client EXCEPT ![cn[th]] = "closed"]
            /\ closes' = [closes EXCEPT ![cn[th]] = @ + 1]
            /\ Return(th, "preview_failed")
    /\ UNCHANGED <<now, sessions, storeLock, lock, issued, removed, kind,
                   tok, cn, created, iface, cmd, cutoff, toRemove, rtok, popped,
                   sweptAt, swept>>

\* (faulty variant) /send checks the token only
MissingTokenOnly(k, t, hasCmd) == t = NoToken

\* if not token or not command (/send); if not token (/info, /signals)
Missing(k, t, hasCmd) == t = NoToken \/ (k = "send" /\ ~hasCmd)

\* /send, /info, /signals up to sessions.get(token).
Request(th, k, t, hasCmd) ==
    /\ pc[th] = "idle"
    /\ kind' = [kind EXCEPT ![th] = k]
    /\ tok' = [tok EXCEPT ![th] = t]
    /\ IF Missing(k, t, hasCmd)
       THEN /\ Return(th, "missing_fields")
            /\ UNCHANGED cmd
       ELSE /\ Goto(th, "get_lock")
            /\ cmd' = [cmd EXCEPT ![th] = 1]
    /\ UNCHANGED <<shared, cn, created, iface, cutoff, toRemove, rtok, popped,
                   sweptAt, swept>>

\* return self._sessions.get(token); a handler answers 404 on None.
GetLookup(th) ==
    /\ pc[th] = "get_lookup"
    /\ storeLock = th
    /\ ReleaseStore
    /\ cn' = [cn EXCEPT ![th] = DictGet(sessions, tok[th])]
    /\ IF DictGet(sessions, tok[th]) = NoConn
       THEN Return(th, "not_found")
       ELSE Goto(th, "x_lock")
    /\ sessions' = DictAfterGet(sessions, tok[th])
    /\ UNCHANGED <<now, client, lock, issued, removed, closes,
                   kind, tok, cmd, cutoff, toRemove, rtok, popped, sweptAt,
                   swept, created, iface>>

\* (faulty variant) the lock is taken whether or not another thread holds it
SessionLockIgnored(c) == TRUE

\* threading.Lock.acquire returns only once the lock is free
SessionLockFree(c) == lock[c] = NoThread

\* (faulty variant) the command is run without taking the lock
TakeLockSkipped(th, c) == UNCHANGED lock

TakeLock(th, c) == lock' = [lock EXCEPT ![c] = th]

\* with session.lock:
ExecAcquire(th) ==
    /\ pc[th] = "x_lock"
    /\ SessionLockFree(cn[th])
    /\ TakeLock(th, cn[th])
    /\ Goto(th, "x_start")
    /\ UNCHANGED <<now, sessions, storeLock, client, issued, removed,
                   closes, kind, tok, cn, created, iface, cmd, cutoff, toRemove,
                   rtok, popped, sweptAt, swept>>

\* (faulty variant) /signals goes on to its next command after a failure
OnCommandFailedContinues(th) ==
    IF kind[th] = "send"
    THEN /\ rtok' = [rtok EXCEPT ![th] = tok[th]]
         /\ Goto(th, "rm_lock")
         /\ UNCHANGED cmd
    ELSE IF kind[th] = "signals" /\ cmd[th] < NumSignalCmds
    THEN /\ cmd' = [cmd EXCEPT ![th] = @ + 1]
         /\ Goto(th, "x_lock")
         /\ UNCHANGED rtok
    ELSE /\ Return(th, "command_failed")
         /\ UNCHANGED <<rtok, cmd>>

\* The except branch of the handler: /send removes the session and answers
\* 502; /info and /signals only answer 502.
OnCommandFailed(th) ==
    IF kind[th] = "send"
    THEN /\ rtok' = [rtok EXCEPT ![th] = tok[th]]
         /\ Goto(th, "rm_lock")
         /\ UNCHANGED cmd
    ELSE /\ Return(th, "command_failed")
         /\ UNCHANGED <<rtok, cmd>>

\* The command returned: /send and /info answer; /signals runs its next
\* command or answers after the third.
OnCommandOk(th) ==
    /\ UNCHANGED rtok
    /\ IF kind[th] = "signals" /\ cmd[th] < NumSignalCmds
       THEN /\ cmd' = [cmd EXCEPT ![th] = @ + 1]
            /\ Goto(th, "x_lock")
       ELSE /\ Return(th, CASE kind[th] = "send" -> "output"
                            [] kind[th] = "info" -> "info"
                            [] OTHER -> "snapshot")
            /\ UNCHANGED cmd

\* (faulty variant) the lock is acquired and never released
ReleaseLockNever(th) == UNCHANGED lock

\* (faulty variant) /signals keeps the lock until its last command is done
ReleaseLockAfterLast(th) ==
    IF kind[th] = "signals" /\ cmd[th] < NumSignalCmds
    THEN UNCHANGED lock
    ELSE lock' = [lock EXCEPT ![cn[th]] = NoThread]

\* Leaving the with block, normally or by an exception, releases the lock.
ReleaseLock(th) == lock' = [lock EXCEPT ![cn[th]] = NoThread]

\* paramiko opens a channel for exec_command only on a client that has not
\* been closed.
ClientActive(c) == client[c] = "open"

\* client.exec_command on a closed client raises; on an open one the command
\* is now in flight.
ExecStart(th) ==
    /\ pc[th] = "x_start"
    /\ IF ClientActive(cn[th])
       THEN /\ Goto(th, "x_run")
            /\ UNCHANGED <<lock, rtok, cmd>>
       ELSE /\ ReleaseLock(th)
            /\ OnCommandFailed(th)
    /\ UNCHANGED <<now, sessions, storeLock, client, issued, removed,
                   closes, kind, tok, cn, created, iface, cutoff, toRemove,
                   popped, sweptAt, swept>>

\* The reads return (ok) or raise (timeout, transport severed).
ExecFinish(th, ok) ==
    /\ pc[th] = "x_run"
    /\ ReleaseLock(th)
    /\ IF ok THEN OnCommandOk(th) ELSE OnCommandFailed(th)
    /\ UNCHANGED <<now, sessions, storeLock, client, issued, removed,
                   closes, kind, tok, cn, created, iface, cutoff, toRemove,
                   popped, sweptAt, swept>>

\* /disconnect: sessions.remove(token) when a token is given.
Disconnect(th, t) ==
    /\ pc[th] = "idle"
    /\ kind' = [kind EXCEPT ![th] = "disconnect"]
    /\ tok' = [tok EXCEPT ![th] = t]
    /\ IF t = NoToken
       THEN /\ Return(th, "disconnected")
            /\ UNCHANGED rtok
       ELSE /\ rtok' = [rtok EXCEPT ![th] = t]
            /\ Goto(th, "rm_lock")
    /\ UNCHANGED <<shared, cn, created, iface, cmd, cutoff, toRemove, popped,
                   sweptAt, swept>>

\* The response leaves; the thread serves its next request.
Respond(th) ==
    /\ pc[th] = "done"
    /\ pc' = [pc EXCEPT ![th] = "idle"]
    /\ res' = [res EXCEPT ![th] = "none"]
    /\ kind' = [kind EXCEPT ![th] = "none"]
    /\ tok' = [tok EXCEPT ![th] = NoToken]
    /\ cn' = [cn EXCEPT ![th] = NoConn]
    /\ created' = [created EXCEPT ![th] = 0]
    /\ iface' = [iface EXCEPT ![th] = NoIface]
    /\ cmd' = [cmd EXCEPT ![th] = 0]
    /\ cutoff' = [cutoff EXCEPT ![th] = 0]
    /\ toRemove' = [toRemove EXCEPT ![th] = {}]
    /\ rtok' = [rtok EXCEPT ![th] = NoToken]
    /\ popped' = [popped EXCEPT ![th] = NoConn]
    /\ sweptAt' = [sweptAt EXCEPT ![th] = 0]
    /\ swept' = [swept EXCEPT ![th] = <<>>]
    /\ UNCHANGED shared

\* time.time() advances by d seconds.
Tick(d) ==
    /\ now + d <= MaxTicks * TickSeconds
    /\ now' = now + d
    /\ UNCHANGED <<sessions, storeLock, client, lock, issued, removed,
                   closes, pc, kind, tok, cn, created, iface, cmd, cutoff,
                   toRemove, rtok, popped, res, sweptAt, swept>>

\* ---------------------------------------------------- specifications

\* Every step but the draw of the token.
Step(th) ==
    \/ \E valid, ok \in BOOLEAN : Connect(th, valid, ok, NextIface)
    \/ \E ok \in BOOLEAN : PreviewFinish(th, ok)
    \/ AddAcquire(th)
    \/ AddPut(th)
    \/ \E a \in MaxAges : CleanupBegin(th, a)
    \/ CleanupAcquire(th)
    \/ CleanupScan(th)
    \/ RemoveAcquire(th)
    \/ RemovePop(th)
    \/ \E raises \in BOOLEAN : RemoveClose(th, raises)
    \/ \E k \in {"send", "info", "signals"}, t \in Tokens \cup {NoToken},
          hasCmd \in BOOLEAN : Request(th, k, t, hasCmd)
    \/ GetAcquire(th)
    \/ GetLookup(th)
    \/ ExecAcquire(th)
    \/ ExecStart(th)
    \/ \E ok \in BOOLEAN : ExecFinish(th, ok)
    \/ \E t \in Tokens \cup {NoToken} : Disconnect(th, t)
    \/ Respond(th)

\* secrets.token_urlsafe(32): 256 random bits. In Spec the source never
\* returns a value twice; SpecAnyToken lets it return any value.
Next ==
    /\ \/ \E th \in Threads : Step(th)
       \/ \E th \in Threads : \E t \in Tokens \ issued : AddNew(th, t)
       \/ Tick(TickSeconds)
    /\ UNCHANGED pure

NextAnyToken ==
    /\ \/ \E th \in Threads : Step(th)
       \/ \E th \in Threads : \E t \in Tokens : AddNew(th, t)
       \/ Tick(TickSeconds)
    /\ UNCHANGED pure

Spec == Init /\ [][Next]_vars

SpecAnyToken == Init /\ [][NextAnyToken]_vars

\* The steps that carry a handler on once its request has arrived.
Progress(th) ==
    \/ \E ok \in BOOLEAN : PreviewFinish(th, ok)
    \/ \E t \in Tokens \ issued : AddNew(th, t)
    \/ AddAcquire(th)
    \/ AddPut(th)
    \/ \E a \in MaxAges : CleanupBegin(th, a)
    \/ CleanupAcquire(th)
    \/ CleanupScan(th)
    \/ RemoveAcquire(th)
    \/ RemovePop(th)
    \/ \E raises \in BOOLEAN : RemoveClose(th, raises)
    \/ GetAcquire(th)
    \/ GetLookup(th)
    \/ ExecStart(th)
    \/ \E ok \in BOOLEAN : ExecFinish(th, ok)
    \/ Respond(th)

\* Scheduling: a thread that can take a step of its handler eventually does
\* (every exec_command carries a timeout, so its reads end); a thread blocked
\* in session.lock.acquire() gets the lock if it is released again and again.
NextFair ==
    /\ \/ \E th \in Threads : Step(th)
       \/ \E th \in Threads : \E t \in Tokens \ issued : AddNew(th, t)
       \/ Tick(MaxTicks * TickSeconds)
    /\ UNCHANGED pure

FairSpec ==
    /\ Init
    /\ [][NextFair]_vars
    /\ \A th \in Threads : WF_server(Progress(th))
    /\ \A th \in Threads : SF_server(ExecAcquire(th))

\* ------------------------------------------------- command wrapper
\* A Python str is modelled as the sequence of its characters.

RECURSIVE SeqsUpTo(_, _)
SeqsUpTo(S, n) ==
    IF n = 0 THEN {<<>>}
    ELSE LET P == SeqsUpTo(S, n - 1) IN P \cup {Append(q, x) : q \in P, x \in S}

\* The characters str.strip() removes from both ends.
Whitespace == {" ", "\t", "\n", "\r", "\f"}

RECURSIVE LStrip(_)
LStrip(s) ==
    IF s # <<>> /\ Head(s) \in Whitespace THEN LStrip(Tail(s)) ELSE s

RECURSIVE RStrip(_)
RStrip(s) ==
    IF s # <<>> /\ s[Len(s)] \in Whitespace
    THEN RStrip(SubSeq(s, 1, Len(s) - 1)) ELSE s

\* (faulty variant) only leading whitespace is removed
StripLeft(s) == LStrip(s)

\* str.strip()
Strip(s) == RStrip(LStrip(s))

\* str.replace(ch, r) for a one-character ch: every ch becomes the string r.
RECURSIVE Replace(_, _, _)
Replace(s, ch, r) ==
    IF s = <<>> THEN <<>>
    ELSE (IF Head(s) = ch THEN r ELSE <<Head(s)>>) \o Replace(Tail(s), ch, r)

\* (faulty variant) double quotes are escaped before backslashes
EscapeQuotesFirst(s) ==
    Replace(Replace(s, "\"", <<"\\", "\"">>), "\\", <<"\\", "\\">>)

\* clean.replace("\\", "\\\\").replace('"', '\\"')
Escape(s) ==
    Replace(Replace(s, "\\", <<"\\", "\\">>), "\"", <<"\\", "\"">>)

\* (at_cmd or "").strip(), then .replace("\r", "").replace("\n", " ")
Clean(at_cmd) == Replace(Replace(Strip(at_cmd), "\r", <<>>), "\n", <<" ">>)

\* '/interface lte at-chat ' and ' input="' of the f-string
TemplateHead ==
    <<"/", "i", "n", "t", "e", "r", "f", "a", "c", "e", " ", "l", "t", "e",
      " ", "a", "t", "-", "c", "h", "a", "t", " ">>

TemplateInput == <<" ", "i", "n", "p", "u", "t", "=", "\"">>

\* _build_ros_at_chat_cmd(interface, at_cmd)
build_ros_at_chat_cmd(interface, at_cmd) ==
    TemplateHead \o interface \o TemplateInput \o Escape(Clean(at_cmd)) \o <<"\"">>

\* The characters of the AT commands tried: a letter, space, CR, LF,
\* backslash, double quote.
CmdAlphabet == {"A", " ", "\r", "\n", "\\", "\""}

\* AT^TEST="x"
CmdTestX == <<"A", "T", "^", "T", "E", "S", "T", "=", "\"", "x", "\"">>

AtCmds == SeqsUpTo(CmdAlphabet, MaxCmdLen) \cup {CmdTestX}

Lte1 == <<"l", "t", "e", "1">>

\* The interface names tried: lte1, and names with a line feed, a carriage
\* return or a double quote inside (/connect strips only the ends of the name).
InterfaceNames ==
    {Lte1, <<"l", "\n", "x">>, <<"l", "\r", "x">>, <<"l", "\"", "x">>}

\* One call of _build_ros_at_chat_cmd, on arguments chosen at the start.
InitBuild ==
    /\ InitServer
    /\ call \in {[fn |-> "build", interface |-> i, at_cmd |-> c] :
                    i \in InterfaceNames, c \in AtCmds}
    /\ ret = [done |-> FALSE]
    /\ NoParse

CallBuild ==
    /\ call.fn = "build"
    /\ ~ret.done
    /\ ret' = [done |-> TRUE,
               value |-> build_ros_at_chat_cmd(call.interface, call.at_cmd)]
    /\ UNCHANGED <<server, call, lines, parser, returned>>

SpecBuild == InitBuild /\ [][CallBuild]_vars

\* ------------------------------------------------ vendor text parser
\* _parse_debug_output reads its text line by line. A raw line is modelled by
\* what the parser's tests see of it: the "output:" marker it begins with
\* ("" for none), the prefix the rest starts with (of those the parser tests
\* with startswith, else ""), the text after the first colon of a rat: line,
\* and its key:value tokens in their order, each value a sequence of
\* characters. A key stands for every pattern that matches at it: `pci:` also
\* matches inside nr_pci:, `channel:` inside nr_channel:, `rsrq:` inside
\* nr_rsrq:. A str is the sequence of its parts (characters, or longer pieces
\* the code puts in as a whole). An Optional value is the set of its value:
\* {} is None. A float is modelled by its number of hundredths; the numbers of
\* the texts tried have at most two digits after the point, and none lies
\* halfway between two tenths.

Line(start, rest, fields) ==
    [marker |-> "", start |-> start, rest |-> rest, fields |-> fields]

\* The raw line is the line with the marker m before it.
Marked(m, line) == [line EXCEPT !.marker = m]

\* A line that is empty once stripped.
EmptyLine == Line("", "", <<>>)

\* line.lower().startswith("output:")
OutputMarkers == {"output:", "Output:", "OUTPUT:"}

\* line = raw_line.strip(); after an output: marker,
\* line = line.split(":", 1)[1].strip()
Normalized(line) ==
    IF line.marker \in OutputMarkers THEN [line EXCEPT !.marker = ""] ELSE line

The(o) == CHOOSE x \in o : TRUE

\* `if value`, `value or default` for an Optional[str]
Truthy(o) == o # {} /\ o # {<<>>}

GetOr(o, default) == IF Truthy(o) THEN The(o) ELSE default

Digits == <<"0", "1", "2", "3", "4", "5", "6", "7", "8", "9">>

DigitChars == {Digits[i] : i \in DOMAIN Digits}

DigitValue(c) == (CHOOSE i \in DOMAIN Digits : Digits[i] = c) - 1

\* The letters of the texts tried.
Letters == {"n", "N", "A", "M", "H", "z", "a", "b", "c", "f", "o"}

\* [-\d.]
NumberChars == DigitChars \cup {"-", "."}

\* [\w/+-]
BandChars == DigitChars \cup Letters \cup {"_", "/", "+", "-"}

\* [^\s]: a token holds no blank
TokenChars == BandChars \cup {".", ",", "(", ")"}

\* What a group ([...]+) matches at the start of v: the longest run of
\* characters of the class (<<>>: no match).
RECURSIVE Matched(_, _)
Matched(v, class) ==
    IF v = <<>> \/ Head(v) \notin class THEN <<>>
    ELSE <<Head(v)>> \o Matched(Tail(v), class)

\* re.search(r"(?:k1|k2):([...]+)", line, re.IGNORECASE): the group of the
\* leftmost token whose key is one of keys and whose value starts with a
\* character of the class, or None.
RECURSIVE SearchGroup(_, _, _)
SearchGroup(fields, keys, class) ==
    IF fields = <<>> THEN {}
    ELSE IF Head(fields)[1] \in keys /\ Matched(Head(fields)[2], class) # <<>>
         THEN {Matched(Head(fields)[2], class)}
    ELSE SearchGroup(Tail(fields), keys, class)

\* (faulty variant) the key before the colon is not compared
SearchAnyKey(fields, keys) ==
    SearchGroup(fields, {fields[i][1] : i \in DOMAIN fields}, DigitChars)

\* re.search(r"(k1|k2):(\d+)", line, re.IGNORECASE)
Search(fields, keys) == SearchGroup(fields, keys, DigitChars)

\* re.search(r"k:([-\d.]+)", line, re.IGNORECASE)
SearchNumber(fields, keys) == SearchGroup(fields, keys, NumberChars)

\* int() of a run of digits
RECURSIVE Natural(_)
Natural(ds) ==
    IF ds = <<>> THEN 0
    ELSE Natural(SubSeq(ds, 1, Len(ds) - 1)) * 10 + DigitValue(ds[Len(ds)])

\* float(value) of a run of [-\d.]: whether float() takes it, and the
\* number, in hundredths. float() takes an optional sign, then digits with at
\* most one point among them and at least one digit.
Float(value) ==
    LET neg  == value # <<>> /\ Head(value) = "-"
        body == IF neg THEN Tail(value) ELSE value
        dots == {i \in 1..Len(body) : body[i] = "."}
        dot  == IF dots = {} THEN Len(body) + 1 ELSE CHOOSE i \in dots : TRUE
        int  == SubSeq(body, 1, dot - 1)
        frac == SubSeq(body, dot + 1, Len(body))
        mag  == Natural(int) * 100
                  + (IF Len(frac) >= 1 THEN DigitValue(frac[1]) * 10 ELSE 0)
                  + (IF Len(frac) >= 2 THEN DigitValue(frac[2]) ELSE 0)
        ok   == /\ \A i \in 1..Len(body) : body[i] \in DigitChars \cup {"."}
                /\ Cardinality(dots) <= 1
                /\ Len(int) + Len(frac) >= 1
    IN [ok |-> ok,
        number |-> IF ~ok THEN 0 ELSE IF neg THEN 0 - mag ELSE mag]

\* (faulty variant) a text float() rejects counts as 0.0
to_float_or_zero(value) == IF Float(value).ok THEN {Float(value).number} ELSE {0}

\* _to_float: float(value), None when float() raises.
to_float(value) == IF Float(value).ok THEN {Float(value).number} ELSE {}

\* \d+(?:\.\d+)? at the start of v
NumberAt(v) ==
    LET d == Matched(v, DigitChars)
        r == SubSeq(v, Len(d) + 1, Len(v))
    IN IF Len(r) >= 2 /\ r[1] = "." /\ r[2] \in DigitChars
       THEN d \o <<".">> \o Matched(Tail(r), DigitChars)
       ELSE d

\* _extract_first_float: re.search(r"([-+]?\d+(?:\.\d+)?)", value), then
\* _to_float of the match.
RECURSIVE extract_first_float(_)
extract_first_float(value) ==
    IF value = <<>> THEN {}
    ELSE IF Head(value) \in DigitChars THEN to_float(NumberAt(value))
    ELSE IF Head(value) \in {"-", "+"} /\ Len(value) > 1 /\ value[2] \in DigitChars
         THEN IF Head(value) = "-"
              THEN to_float(<<"-">> \o NumberAt(Tail(value)))
              ELSE to_float(NumberAt(Tail(value)))
    ELSE extract_first_float(Tail(value))

\* (faulty variant) the value is kept with all its digits
round_value_exact(value) == value

\* round(h / 100, 1) in hundredths: the nearest tenth; halfway between two
\* tenths, the even one.
Rounded(h) ==
    LET down == h - (h % 10) IN
    IF h % 10 < 5 THEN down
    ELSE IF h % 10 > 5 THEN down + 10
    ELSE IF (down \div 10) % 2 = 0 THEN down ELSE down + 10

\* _round_value: None for None (float() of a run of [-\d.] is never a NaN),
\* else round(value, 1).
round_value(value) == IF value = {} THEN {} ELSE {Rounded(The(value))}

\* s.split(sep)
RECURSIVE Split(_, _)
Split(s, sep) ==
    LET at == {i \in 1..Len(s) : s[i] = sep} IN
    IF at = {} THEN <<s>>
    ELSE LET i == CHOOSE i \in at : \A j \in at : i <= j
         IN <<SubSeq(s, 1, i - 1)>> \o Split(SubSeq(s, i + 1, Len(s)), sep)

\* sep.join(list)
RECURSIVE Join(_, _)
Join(list, sep) ==
    IF list = <<>> THEN <<>>
    ELSE IF Len(list) = 1 THEN list[1]
    ELSE list[1] \o <<sep>> \o Join(Tail(list), sep)

\* str(n) of a natural number
RECURSIVE Decimal(_)
Decimal(n) ==
    IF n < 10 THEN <<Digits[n + 1]>>
    ELSE Decimal(n \div 10) \o <<Digits[(n % 10) + 1]>>

\* A str made of a number and a unit, as an f-string builds it: "number"
\* with the float and the text after it, or a text without number.
Display(text, num, unit) == [text |-> text, num |-> num, unit |-> unit]

\* "-"
NoDisplay == Display("junk", 0, "")

\* "N/A"
NotAvailable == Display("N/A", 0, "")

\* ""
EmptyDisplay == Display("", 0, "")

Dash == <<"-">>

\* "N/A", by its characters: it is compared with the text of a band
NA == <<"N", "/", "A">>

\* info as created at the top of _parse_debug_output.
InfoDefaults ==
    [rat |-> Dash, mccmnc |-> Dash, bands |-> Dash, channel |-> Dash,
     channels |-> Dash, pci |-> Dash, cell_id |-> Dash, tac |-> Dash,
     rsrp |-> NoDisplay, rsrq |-> NoDisplay, snr |-> NoDisplay,
     rssi |-> NoDisplay, rsrp_value |-> {}, rsrq_value |-> {},
     snr_value |-> {}, rssi_value |-> {}, advanced |-> <<>>]

\* current_entry = None ... pending_nr_tx_power = None
Locals ==
    [info |-> InfoDefaults, current_entry |-> {}, scell_counter |-> 0,
     advanced_entries |-> <<>>, pending_lte_antennas |-> <<>>,
     pending_lte_diversity |-> {}, pending_lte_tx_power |-> {},
     pending_nr_tx_power |-> {}]

\* (faulty variant) scell_counter lives on from the call before
CallLocalsKeepCounter(before) ==
    [Locals EXCEPT !.scell_counter = before.scell_counter]

\* The locals at the start of a call; before: those the call before ended
\* with.
CallLocals(before) == Locals

\* The characters of the line in which a number can start: no key holds a
\* digit.
RECURSIVE Values(_)
Values(fields) ==
    IF fields = <<>> THEN <<>>
    ELSE Head(fields)[2] \o <<" ">> \o Values(Tail(fields))

\* line.split(":", 1)[1].strip() of a line of one token
FirstValue(line) == IF line.fields = <<>> THEN <<>> ELSE Head(line.fields)[2]

\* _parse_antennas: the group of \(([^)]+)\) is the value of the token "(".
parse_antennas(line) ==
    LET group == SearchGroup(line.fields, {"("}, TokenChars \ {")"}) IN
    IF group = {} THEN <<>>
    ELSE LET items == Split(The(group), ",") IN
         [idx \in 1..Len(items) |->
            LET value == extract_first_float(items[idx]) IN
            [label |-> <<"Antenna", " ">> \o Decimal(idx),
             value |-> value,
             display |-> IF value # {}
                         THEN Display("number", The(value), " dBm")
                         ELSE NotAvailable]]

\* add_metric
Metric(key, label, value, unit) ==
    LET normalized == round_value(value) IN
    [key |-> key, label |-> label, value |-> normalized,
     display |-> IF normalized # {}
                 THEN Display("number", The(normalized), unit)
                 ELSE NotAvailable]

\* detail of _finalize_entry
Detail(entry) ==
    LET lte == entry.technology = "LTE"
        band_display ==
            IF lte /\ Truthy(entry.band) THEN <<"Band ">> \o The(entry.band)
            ELSE GetOr(entry.band, NA)
        title ==
            IF lte /\ entry.role = "secondary"
            THEN <<"CA 4G #">> \o (IF entry.ca_index = {} THEN <<>>
                                   ELSE Decimal(The(entry.ca_index)))
            ELSE IF lte THEN <<"Primary 4G">> ELSE <<"Primary 5G">>
    IN [title |-> IF band_display # NA
                  THEN title \o <<" (">> \o band_display \o <<")">>
                  ELSE title,
        technology |-> entry.technology,
        band |-> entry.band,
        band_display |-> band_display,
        bandwidth |-> GetOr(entry.bandwidth, Dash),
        channel |-> GetOr(entry.channel, Dash),
        pci |-> GetOr(entry.pci, Dash),
        rx_diversity |-> GetOr(entry.rx_diversity, <<>>),
        tx_power |-> IF entry.tx_power # {}
                     THEN Display("number", The(round_value(entry.tx_power)), " dBm")
                     ELSE EmptyDisplay,
        metrics |->
            <<Metric("rsrq", IF lte THEN "RSRQ" ELSE "SS_RSRQ", entry.rsrq, " dB"),
              Metric("rsrp", IF lte THEN "RSRP" ELSE "SS_RSRP", entry.rsrp, " dBm"),
              Metric("rssi", "RSSI", entry.rssi, " dBm"),
              Metric("snr", IF lte THEN "SINR" ELSE "SS_SINR", entry.snr, " dB")>>,
        antennas |-> entry.antennas]

\* _finalize_entry(entry, advanced): advanced afterwards
finalize_entry(entry, advanced) ==
    IF entry = {} THEN advanced ELSE Append(advanced, Detail(The(entry)))

\* normalized_band.lower().startswith("n")
StartsWithN(band) == band # <<>> /\ Head(band) \in {"n", "N"}

\* The band of an entry that has one, an NR band prefixed with n.
NormalizedBand(entry) ==
    IF entry.technology = "NR" /\ ~StartsWithN(The(entry.band))
    THEN <<"n">> \o The(entry.band)
    ELSE The(entry.band)

\* (faulty variant) a band is listed every time it comes
RECURSIVE OrderedBandsRepeated(_, _)
OrderedBandsRepeated(entries, ordered_bands) ==
    IF entries = <<>> THEN ordered_bands
    ELSE IF ~Truthy(Head(entries).band)
         THEN OrderedBandsRepeated(Tail(entries), ordered_bands)
    ELSE OrderedBandsRepeated(Tail(entries),
                              Append(ordered_bands, NormalizedBand(Head(entries))))

\* The loop of _build_band_display: ordered_bands after the entries.
RECURSIVE OrderedBands(_, _)
OrderedBands(entries, ordered_bands) ==
    IF entries = <<>> THEN ordered_bands
    ELSE IF ~Truthy(Head(entries).band)
         THEN OrderedBands(Tail(entries), ordered_bands)
    ELSE IF \E i \in DOMAIN ordered_bands :
                ordered_bands[i] = NormalizedBand(Head(entries))
         THEN OrderedBands(Tail(entries), ordered_bands)
    ELSE OrderedBands(Tail(entries),
                      Append(ordered_bands, NormalizedBand(Head(entries))))

build_band_display(entries) ==
    LET ordered_bands == OrderedBands(entries, <<>>) IN
    IF ordered_bands # <<>> THEN Join(ordered_bands, " + ") ELSE Dash

\* The loop of _build_channel_display: channels after the entries. It reads
\* the finalized details, whose channel is a str.
RECURSIVE ChannelLabels(_)
ChannelLabels(entries) ==
    IF entries = <<>> THEN <<>>
    ELSE LET entry == Head(entries) IN
         IF entry.channel = <<>> THEN ChannelLabels(Tail(entries))
         ELSE <<IF Truthy(entry.band)
                THEN entry.channel \o <<" (">> \o NormalizedBand(entry) \o <<")">>
                ELSE entry.channel>>
              \o ChannelLabels(Tail(entries))

build_channel_display(entries) ==
    LET channels == ChannelLabels(entries) IN
    IF channels # <<>> THEN Join(channels, " + ") ELSE Dash

\* The prefixes of the lines that are buffered for the entry to come.
BufferPrefixes == {"lte_ant_rsrp", "lte_tx_pwr", "nr_tx_pwr"}

HeaderTechnology == [x \in {"pcell:", "scell:", "nr_band:"} |->
                        IF x = "nr_band:" THEN "NR" ELSE "LTE"]

\* The field lines of an open entry, by its technology.
EntryPrefixes ==
    [LTE |-> {"channel:", "lte_rsrp:", "lte_rssi:"},
     NR  |-> {"nr_channel:", "nr_pci:", "nr_band_width:", "nr_rsrp:",
              "nr_rsrq:", "nr_rssi:", "nr_snr:"}]

\* info["rat"] = line.split(":", 1)[1].strip()
RatLine(info, line) == [info EXCEPT !.rat = <<line.rest>>]

\* info["mccmnc"] = f"{mcc.group(1)}/{mnc.group(1)}"
MccMncLine(info, line) ==
    [info EXCEPT !.mccmnc =
        The(Search(line.fields, {"mcc"})) \o <<"/">> \o The(Search(line.fields, {"mnc"}))]

\* (faulty variant) the value of every line is taken, not just the first
FirstMetricLast(info, key, value, unit) ==
    LET value_key == [rsrp |-> "rsrp_value", rsrq |-> "rsrq_value",
                      snr |-> "snr_value", rssi |-> "rssi_value"][key]
    IN [info EXCEPT ![value_key] = value,
                    ![key] = IF value # {}
                             THEN Display("number", The(value), unit)
                             ELSE NoDisplay]

\* if info.get(key) == "-": info[key + "_value"] = value; info[key] =
\* f"{value}{unit}" if value is not None else "-"
FirstMetric(info, key, value, unit) ==
    IF info[key] # NoDisplay THEN info
    ELSE LET value_key == [rsrp |-> "rsrp_value", rsrq |-> "rsrq_value",
                           snr |-> "snr_value", rssi |-> "rssi_value"][key]
         IN [info EXCEPT ![value_key] = value,
                         ![key] = IF value # {}
                                  THEN Display("number", The(value), unit)
                                  ELSE NoDisplay]

\* if info.get(key) == "-": info[key] = value
First(info, key, value) ==
    IF info[key] = Dash /\ value # {} THEN [info EXCEPT ![key] = The(value)] ELSE info

\* The end of the loop body: the patterns tried on a line that no branch
\* above has consumed.
GenericCapture(info, line) ==
    LET cell == Search(line.fields, {"lte_cell_id", "nr_cell_id"})
        tac  == Search(line.fields, {"lte_tac", "nr_tac"})
        channel_match == Search(line.fields, {"channel", "nr_channel"})
        pci_match == Search(line.fields, {"pci", "nr_pci"})
        band_match == SearchGroup(line.fields, {"lte_band", "nr_band"}, BandChars)
        rsrp_match == SearchNumber(line.fields, {"lte_rsrp", "nr_rsrp"})
        rsrq_match == SearchNumber(line.fields, {"rsrq", "nr_rsrq"})
        snr_match == SearchNumber(line.fields, {"lte_snr", "nr_snr"})
        rssi_match == SearchNumber(line.fields, {"lte_rssi"})
        i1 == [info EXCEPT !.cell_id = IF cell # {} THEN The(cell) ELSE @,
                           !.tac     = IF tac # {} THEN The(tac) ELSE @]
        i2 == First(First(i1, "channel", channel_match), "pci", pci_match)
        existing == IF i2.bands # Dash THEN Split(i2.bands, ", ") ELSE <<>>
        i3 == IF band_match = {} THEN i2
              ELSE [i2 EXCEPT !.bands =
                      Join(IF \E i \in DOMAIN existing : existing[i] = The(band_match)
                           THEN existing
                           ELSE Append(existing, The(band_match)), ", ")]
        i4 == IF rsrp_match = {} THEN i3
              ELSE FirstMetric(i3, "rsrp", to_float(The(rsrp_match)), "dBm")
        i5 == IF rsrq_match = {} THEN i4
              ELSE FirstMetric(i4, "rsrq", to_float(The(rsrq_match)), "dB")
        i6 == IF snr_match = {} THEN i5
              ELSE FirstMetric(i5, "snr", to_float(The(snr_match)), "dB")
    IN IF rssi_match = {} THEN i6
       ELSE FirstMetric(i6, "rssi", to_float(The(rssi_match)), "dBm")

\* The lte_ant_rsrp, lte_tx_pwr and nr_tx_pwr lines.
BufferedLine(p, line) ==
    IF line.start = "lte_ant_rsrp"
    THEN LET diversity == Search(line.fields, {"rx_diversity"}) IN
         [p EXCEPT !.pending_lte_antennas = parse_antennas(line),
                   !.pending_lte_diversity = IF diversity # {} THEN diversity ELSE @]
    ELSE IF line.start = "lte_tx_pwr"
    THEN [p EXCEPT !.pending_lte_tx_power = extract_first_float(Values(line.fields))]
    ELSE [p EXCEPT !.pending_nr_tx_power = extract_first_float(Values(line.fields))]

\* The dict a header line creates.
Entry(technology, role, ca_index, antennas, rx_diversity, tx_power) ==
    [technology |-> technology, role |-> role, ca_index |-> ca_index,
     band |-> {}, bandwidth |-> {}, channel |-> {}, pci |-> {},
     rsrp |-> {}, rsrq |-> {}, rssi |-> {}, snr |-> {},
     antennas |-> antennas, rx_diversity |-> rx_diversity,
     tx_power |-> tx_power]

\* (faulty variant) the bandwidth named on a header line is dropped
InlineBandOnly(entry, band_match, bw_match) ==
    [entry EXCEPT !.band = IF band_match # {} THEN band_match ELSE @]

\* band_match, bw_match of a header line: the entry with the band and the
\* bandwidth named on the line.
Inline(entry, band_match, bw_match) ==
    [entry EXCEPT !.band = IF band_match # {} THEN band_match ELSE @,
                  !.bandwidth = IF bw_match # {} THEN bw_match ELSE @]

\* What every header line does: _finalize_entry(current_entry,
\* advanced_entries), current_entry = {...}, and the band of the line goes to
\* info["bands"] if that is "-".
Opened(p, entry, band_match) ==
    [p EXCEPT !.advanced_entries = finalize_entry(p.current_entry, p.advanced_entries),
              !.current_entry = {entry},
              !.info = First(p.info, "bands", band_match)]

\* (faulty variant) a pcell: line starts the numbering of the scells anew
PcellLineRestarts(p, line) ==
    LET band_match == Search(line.fields, {"lte_band"})
        bw_match == SearchGroup(line.fields, {"lte_band_width"}, TokenChars)
        entry == Entry("LTE", "primary", {}, p.pending_lte_antennas,
                       p.pending_lte_diversity, p.pending_lte_tx_power)
    IN [Opened(p, Inline(entry, band_match, bw_match), band_match)
           EXCEPT !.pending_lte_antennas = <<>>,
                  !.pending_lte_diversity = {},
                  !.pending_lte_tx_power = {},
                  !.scell_counter = 0]

PcellLine(p, line) ==
    LET band_match == Search(line.fields, {"lte_band"})
        bw_match == SearchGroup(line.fields, {"lte_band_width"}, TokenChars)
        entry == Entry("LTE", "primary", {}, p.pending_lte_antennas,
                       p.pending_lte_diversity, p.pending_lte_tx_power)
    IN [Opened(p, Inline(entry, band_match, bw_match), band_match)
           EXCEPT !.pending_lte_antennas = <<>>,
                  !.pending_lte_diversity = {},
                  !.pending_lte_tx_power = {}]

ScellLine(p, line) ==
    LET band_match == Search(line.fields, {"lte_band"})
        bw_match == SearchGroup(line.fields, {"lte_band_width"}, TokenChars)
        entry == Entry("LTE", "secondary", {p.scell_counter + 1}, <<>>, {}, {})
    IN [Opened(p, Inline(entry, band_match, bw_match), band_match)
           EXCEPT !.scell_counter = @ + 1]

NrBandLine(p, line) ==
    LET band_match == SearchGroup(line.fields, {"nr_band"}, TokenChars)
        entry == Entry("NR", "primary", {}, <<>>, {}, p.pending_nr_tx_power)
    IN [Opened(p, Inline(entry, band_match, {}), band_match)
           EXCEPT !.pending_nr_tx_power = {}]

\* current_entry[key] = _to_float(match.group(1)) and the top-level copy, when
\* the pattern matched.
EntryMetric(p, key, match, unit) ==
    IF match = {} THEN p
    ELSE LET value == to_float(The(match)) IN
         [p EXCEPT !.current_entry = {[The(@) EXCEPT ![key] = value]},
                   !.info = FirstMetric(@, key, value, unit)]

\* current_entry[key] = value and the top-level copy, when there is a value.
EntryField(p, key, value) ==
    IF value = {} THEN p
    ELSE [p EXCEPT !.current_entry = {[The(@) EXCEPT ![key] = value]},
                   !.info = First(@, key, value)]

\* (faulty variant) a field line goes to the open entry whatever its
\* technology
FieldOfAnyEntry(p, line) ==
    p.current_entry # {} /\ line.start \in EntryPrefixes.LTE \cup EntryPrefixes.NR

\* if current_entry: ... line.startswith(prefix) and
\* current_entry.get("technology") == technology
FieldOfEntry(p, line) ==
    p.current_entry # {} /\ line.start \in EntryPrefixes[The(p.current_entry).technology]

\* The field lines of the open entry.
EntryLine(p, line) ==
    LET f == line.fields IN
    CASE line.start = "channel:" ->
            EntryField(EntryField(p, "channel", Search(f, {"channel", "nr_channel"})),
                       "pci", Search(f, {"pci", "nr_pci"}))
      [] line.start = "nr_channel:" -> EntryField(p, "channel", {FirstValue(line)})
      [] line.start = "nr_pci:" -> EntryField(p, "pci", {FirstValue(line)})
      [] line.start = "nr_band_width:" ->
            [p EXCEPT !.current_entry = {[The(@) EXCEPT !.bandwidth = {FirstValue(line)}]}]
      [] line.start = "lte_rsrp:" ->
            EntryMetric(EntryMetric(p, "rsrp", SearchNumber(f, {"lte_rsrp"}), "dBm"),
                        "rsrq", SearchNumber(f, {"rsrq", "nr_rsrq"}), "dB")
      [] line.start = "lte_rssi:" ->
            EntryMetric(EntryMetric(p, "rssi", SearchNumber(f, {"lte_rssi"}), "dBm"),
                        "snr", SearchNumber(f, {"lte_snr"}), "dB")
      [] line.start = "nr_rsrp:" ->
            LET q == EntryMetric(p, "rsrp", SearchNumber(f, {"nr_rsrp"}), "dBm")
                diversity == Search(f, {"rx_diversity"})
                antennas == parse_antennas(line)
            IN [q EXCEPT !.current_entry =
                   {[The(@) EXCEPT !.rx_diversity = IF diversity # {} THEN diversity ELSE @,
                                   !.antennas = IF antennas # <<>> THEN antennas ELSE @]}]
      [] line.start = "nr_rsrq:" -> EntryMetric(p, "rsrq", SearchNumber(f, {"nr_rsrq"}), "dB")
      [] line.start = "nr_rssi:" -> EntryMetric(p, "rssi", SearchNumber(f, {"nr_rssi"}), "dBm")
      [] line.start = "nr_snr:" -> EntryMetric(p, "snr", SearchNumber(f, {"nr_snr"}), "dB")

\* One round of `for raw_line in text.splitlines()`: the locals afterwards.
ParsedLine(p, raw_line) ==
    LET line == Normalized(raw_line) IN
    IF line = EmptyLine
    THEN p
    ELSE IF line.start = "rat:"
    THEN [p EXCEPT !.info = RatLine(p.info, line)]
    ELSE IF Search(line.fields, {"mcc"}) # {} /\ Search(line.fields, {"mnc"}) # {}
    THEN [p EXCEPT !.info = MccMncLine(p.info, line)]
    ELSE IF line.start \in BufferPrefixes
    THEN BufferedLine(p, line)
    ELSE IF line.start = "pcell:"
    THEN PcellLine(p, line)
    ELSE IF line.start = "scell:"
    THEN ScellLine(p, line)
    ELSE IF line.start = "nr_band:"
    THEN NrBandLine(p, line)
    ELSE IF FieldOfEntry(p, line)
    THEN EntryLine(p, line)
    ELSE [p EXCEPT !.info = GenericCapture(p.info, line)]

\* (faulty variant) info["bands"] stays as the lines left it
FinishedKeepsBands(p) ==
    LET advanced_entries == finalize_entry(p.current_entry, p.advanced_entries) IN
    [p EXCEPT !.advanced_entries = advanced_entries,
              !.info = [@ EXCEPT !.advanced = advanced_entries,
                                 !.channels = build_channel_display(advanced_entries)]]

\* After the loop: the last entry is finalized, info gets the entries and the
\* two displays built from them.
Finished(p) ==
    LET advanced_entries == finalize_entry(p.current_entry, p.advanced_entries) IN
    [p EXCEPT !.advanced_entries = advanced_entries,
              !.info = [@ EXCEPT !.advanced = advanced_entries,
                                 !.bands = build_band_display(advanced_entries),
                                 !.channels = build_channel_display(advanced_entries)]]

\* The lines tried for the top-level fields.
DebugLines ==
    {Line("rat:", "LTE", <<>>),
     Line("rat:", "NR", <<>>),
     Line("", "222,mnc:10", << <<"mcc", <<"2", "2", "2">>>>, <<"mnc", <<"1", "0">>>> >>),
     Line("", "333,mnc:20", << <<"mcc", <<"3", "3", "3">>>>, <<"mnc", <<"2", "0">>>> >>),
     Line("", "111 lte_tac:5", << <<"lte_cell_id", <<"1", "1", "1">>>>, <<"lte_tac", <<"5">>>> >>),
     Line("", "999 nr_tac:77", << <<"nr_cell_id", <<"9", "9", "9">>>>, <<"nr_tac", <<"7", "7">>>> >>),
     Line("", "abc", << <<"lte_cell_id", <<"a", "b", "c">>>> >>),
     Line("pcell:", "lte_band:3 lte_cell_id:222", << <<"lte_band", <<"3">>>>, <<"lte_cell_id", <<"2", "2", "2">>>> >>),
     Line("nr_band:", "n78", << <<"nr_band", <<"n", "7", "8">>>> >>),
     Line("lte_rsrp:", "-95 lte_tac:20", << <<"lte_rsrp", <<"-", "9", "5">>>>, <<"lte_tac", <<"2", "0">>>> >>)}

\* The lines tried for the entries, each named after its text.
\* pcell: lte_band:3 lte_band_width:20MHz
PcellBand3 ==
    Line("pcell:", "", << <<"lte_band", <<"3">>>>, <<"lte_band_width", <<"2", "0", "M", "H", "z">>>> >>)

\* pcell: lte_band:3 mcc:222 mnc:10
PcellWithMccMnc ==
    Line("pcell:", "", << <<"lte_band", <<"3">>>>, <<"mcc", <<"2", "2", "2">>>>, <<"mnc", <<"1", "0">>>> >>)

\* pcell:
PcellBare ==
    Line("pcell:", "", <<>>)

\* scell: lte_band:7
ScellBand7 ==
    Line("scell:", "", << <<"lte_band", <<"7">>>> >>)

\* nr_band:n78
NrBandN78 ==
    Line("nr_band:", "", << <<"nr_band", <<"n", "7", "8">>>> >>)

\* nr_band:78
NrBand78 ==
    Line("nr_band:", "", << <<"nr_band", <<"7", "8">>>> >>)

\* channel:1300 pci:55
Channel1300 ==
    Line("channel:", "", << <<"channel", <<"1", "3", "0", "0">>>>, <<"pci", <<"5", "5">>>> >>)

\* nr_channel:5000
NrChannel5000 ==
    Line("nr_channel:", "", << <<"nr_channel", <<"5", "0", "0", "0">>>> >>)

\* lte_rsrp:-95 rsrq:-10
LteRsrp95 ==
    Line("lte_rsrp:", "", << <<"lte_rsrp", <<"-", "9", "5">>>>, <<"rsrq", <<"-", "1", "0">>>> >>)

\* lte_rsrp:abc rsrq:-
LteRsrpAbc ==
    Line("lte_rsrp:", "", << <<"lte_rsrp", <<"a", "b", "c">>>>, <<"rsrq", <<"-">>>> >>)

\* lte_rsrp:1.2.3
LteRsrpDotted ==
    Line("lte_rsrp:", "", << <<"lte_rsrp", <<"1", ".", "2", ".", "3">>>> >>)

\* lte_rssi:-60 lte_snr:9.5
LteRssi ==
    Line("lte_rssi:", "", << <<"lte_rssi", <<"-", "6", "0">>>>, <<"lte_snr", <<"9", ".", "5">>>> >>)

\* nr_rsrp:-101 rx_diversity:2 (-100,-)
NrRsrp ==
    Line("nr_rsrp:", "", << <<"nr_rsrp", <<"-", "1", "0", "1">>>>, <<"rx_diversity", <<"2">>>>, <<"(", <<"-", "1", "0", "0", ",", "-">>>> >>)

\* nr_rsrq:-11dB
NrRsrq ==
    Line("nr_rsrq:", "", << <<"nr_rsrq", <<"-", "1", "1", "d", "B">>>> >>)

\* lte_tx_pwr:10
LteTxPwr ==
    Line("lte_tx_pwr", "", << <<"lte_tx_pwr", <<"1", "0">>>> >>)

\* lte_ant_rsrp:rx_diversity:3 (-90,-91)
LteAntRsrp ==
    Line("lte_ant_rsrp", "", << <<"rx_diversity", <<"3">>>>, <<"(", <<"-", "9", "0", ",", "-", "9", "1">>>> >>)

\* nr_tx_pwr:5
NrTxPwr ==
    Line("nr_tx_pwr", "", << <<"nr_tx_pwr", <<"5">>>> >>)

\* nr_band:N/A
NrBandNA ==
    Line("nr_band:", "", << <<"nr_band", <<"N", "/", "A">>>> >>)

\* lte_rsrp:-95.27 rsrq:-10.04
LteRsrpFine ==
    Line("lte_rsrp:", "", << <<"lte_rsrp", <<"-", "9", "5", ".", "2", "7">>>>, <<"rsrq", <<"-", "1", "0", ".", "0", "4">>>> >>)

\* lte_band:20
LteBand20 ==
    Line("", "", << <<"lte_band", <<"2", "0">>>> >>)

\* foo:1
UnknownField ==
    Line("", "", << <<"foo", <<"1">>>> >>)

\* Output: scell: lte_band:7
OutputScell == Marked("Output:", ScellBand7)

CellLines ==
    {PcellBand3, PcellWithMccMnc, PcellBare, ScellBand7,
     NrBandN78, NrBand78, Channel1300, NrChannel5000, LteRsrp95,
     LteRsrpAbc, LteRsrpDotted, LteRssi, NrRsrp, NrRsrq,
     LteTxPwr, LteAntRsrp, NrTxPwr,
     NrBandNA, LteRsrpFine, LteBand20, UnknownField,
     OutputScell, EmptyLine}

\* One call of _parse_debug_output on a text chosen at the start.
InitParse ==
    /\ InitServer
    /\ call \in {[fn |-> "parse", text |-> t] : t \in SeqsUpTo(DebugLines, MaxLines)}
    /\ ret = [done |-> FALSE]
    /\ lines = call.text
    /\ parser = Locals
    /\ returned = <<>>

\* The same on a text of the lines of the entries.
InitCells ==
    /\ InitServer
    /\ call \in {[fn |-> "parse", text |-> t] : t \in SeqsUpTo(CellLines, MaxLines)}
    /\ ret = [done |-> FALSE]
    /\ lines = call.text
    /\ parser = Locals
    /\ returned = <<>>

\* The texts parsed one after the other.
ReparseTexts ==
    {<<>>, <<ScellBand7>>, <<ScellBand7, ScellBand7>>, <<LteTxPwr>>,
     <<LteTxPwr, PcellBand3>>, <<PcellBand3, LteRsrp95>>,
     <<ScellBand7, PcellBand3, ScellBand7>>,
     <<ScellBand7, NrBandN78, OutputScell>>}

\* A first call of _parse_debug_output, more to follow.
InitReparse ==
    /\ InitServer
    /\ call \in {[fn |-> "parse", text |-> t] : t \in ReparseTexts}
    /\ ret = [done |-> FALSE]
    /\ lines = call.text
    /\ parser = Locals
    /\ returned = <<>>

ParseLine ==
    /\ call.fn = "parse"
    /\ lines # <<>>
    /\ parser' = ParsedLine(parser, Head(lines))
    /\ lines' = Tail(lines)
    /\ UNCHANGED <<server, call, ret, returned>>

\* After the loop: the last finalize, the displays, return info.
ParseReturn ==
    /\ call.fn = "parse"
    /\ lines = <<>>
    /\ ~ret.done
    /\ parser' = Finished(parser)
    /\ ret' = [done |-> TRUE, value |-> parser'.info]
    /\ UNCHANGED <<server, call, lines, returned>>

\* The caller keeps the snapshot it got and calls _parse_debug_output again,
\* on the text t.
ParseAgain(t) ==
    /\ call.fn = "parse"
    /\ ret.done
    /\ Len(returned) + 1 < MaxCalls
    /\ returned' = Append(returned, [text |-> call.text, value |-> ret.value])
    /\ call' = [fn |-> "parse", text |-> t]
    /\ ret' = [done |-> FALSE]
    /\ lines' = t
    /\ parser' = CallLocals(parser)
    /\ UNCHANGED server

SpecParse == InitParse /\ [][ParseLine \/ ParseReturn]_vars

SpecCells == InitCells /\ [][ParseLine \/ ParseReturn]_vars

SpecReparse ==
    InitReparse /\ [][ParseLine \/ ParseReturn \/ \E t \in ReparseTexts : ParseAgain(t)]_vars

\* ------------------------------------------- signal quality assessor
\* A display string is modelled by its unit suffix ("dBm", "dB" or "" for
\* none) and by what stands before it: an integer (text = "number", num its
\* value) or something float() rejects (text = "junk"). "-" is junk without
\* suffix. An Optional[float] is the set of its value: {} is None.

\* float(s.replace(suffix, "")) if s.endswith(suffix) else None; "raises"
\* when float() raises.
ParseDisplay(d, suffix) ==
    IF d.unit # suffix THEN [raises |-> FALSE, val |-> {}]
    ELSE IF d.text = "number" THEN [raises |-> FALSE, val |-> {d.num}]
    ELSE [raises |-> TRUE, val |-> {}]

\* (x or default): the default replaces None and also 0.0, which is falsy.
Or(x, default) ==
    IF x = {} \/ x = {0} THEN default ELSE CHOOSE v \in x : TRUE

\* _assess_signal(rsrp, rsrq, snr)
assess_signal(rsrp, rsrq, snr) ==
    LET r == ParseDisplay(rsrp, "dBm")
        q == ParseDisplay(rsrq, "dB")
        n == ParseDisplay(snr, "dB")
    IN IF r.raises \/ q.raises \/ n.raises THEN "-"
       ELSE IF r.val = {} THEN "-"
       ELSE LET rsrp_val == CHOOSE v \in r.val : TRUE IN
            IF rsrp_val >= -90 /\ Or(n.val, 0) >= 10 THEN "Ottimo"
            ELSE IF rsrp_val >= -105 /\ Or(q.val, -40) >= -14 THEN "Buono"
            ELSE IF rsrp_val >= -115 THEN "Discreto"
            ELSE "Debole"

\* The values tried: the thresholds, their neighbours, 0 and the example.
RsrpValues == {-120, -116, -115, -114, -106, -105, -104, -91, -90, -89, -88, 0}

RsrqValues == {-40, -20, -15, -14, -13, -9, 0}

SnrValues == {-5, 0, 9, 10, 11, 12}

RsrpDisplays ==
    {Display("number", v, "dBm") : v \in RsrpValues}
    \cup {NoDisplay, Display("number", -88, ""), Display("number", -88, "dB"),
          Display("junk", 0, "dBm")}

RsrqDisplays ==
    {Display("number", v, "dB") : v \in RsrqValues}
    \cup {NoDisplay, Display("number", -9, "dBm"), Display("junk", 0, "dB")}

SnrDisplays ==
    {Display("number", v, "dB") : v \in SnrValues}
    \cup {NoDisplay, Display("junk", 0, "dB")}

\* One call of _assess_signal on arguments chosen at the start.
InitAssess ==
    /\ InitServer
    /\ call \in {[fn |-> "assess", rsrp |-> r, rsrq |-> q, snr |-> n] :
                    r \in RsrpDisplays, q \in RsrqDisplays, n \in SnrDisplays}
    /\ ret = [done |-> FALSE]
    /\ NoParse

CallAssess ==
    /\ call.fn = "assess"
    /\ ~ret.done
    /\ ret' = [done |-> TRUE, value |-> assess_signal(call.rsrp, call.rsrq, call.snr)]
    /\ UNCHANGED <<server, call, lines, parser, returned>>

SpecAssess == InitAssess /\ [][CallAssess]_vars

\* ------------------------------------------------------------ claims

Registered(c) == \E t \in DOMAIN sessions : sessions[t].client = c

\* Thread th holds a reference to connection c: as the client it opened, as
\* the session it looked up, or as the session it popped.
Refers(th, c) == cn[th] = c \/ popped[th] = c

\* Thread th takes the step that leaves program point p.
Leaves(th, p) == pc[th] = p /\ pc'[th] # p

C2_OneCommandPerConnection ==
    \A c \in Conns : Cardinality({th \in Threads : Executing(th, c)}) <= 1

\* C2 witness: a command runs on a session while another request for the
\* same session waits for the session lock.
C2_SecondCallerWaits ==
    \E a, b \in Threads :
        /\ a # b
        /\ pc[a] = "x_run"
        /\ pc[b] = "x_lock"
        /\ cn[a] = cn[b]

\* C3: a token whose session remove(token) has popped is not found by get in
\* any later state.
C3_RemovalIrreversible ==
    \A t \in removed : DictGet(sessions, t) = NoConn

\* C3 witness: after a removal another session has been created and a request
\* with the removed token has been answered "not found".
C3_NotFoundAfterRemove ==
    \E th \in Threads :
        /\ pc[th] = "done"
        /\ res[th] = "not_found"
        /\ tok[th] \in removed
        /\ DOMAIN sessions # {}

\* Thread th is in the loop of its cleanup, inside a remove(token).
Sweeping(th) == kind[th] = "connect" /\ pc[th] \in {"rm_lock", "rm_pop", "rm_close"}

\* The sessions a cleanup whose cutoff is taken at time `at` has to remove.
TooOld(at, max_age) ==
    {t \in DOMAIN sessions : at - sessions[t].created_at > max_age}

\* C4: a cleanup whose cutoff was taken at time now selects exactly the
\* sessions with now - created_at > max_age. Each of its steps detaches or
\* closes only a session it selected; every other entry and client is left as
\* it was. When it returns, every token it selected is unregistered and the
\* client is closed (by cleanup, or by the concurrent remove that popped the
\* session first and is at its close).
C4_SweepExact ==
    [][\A th \in Threads :
          /\ Leaves(th, "cl_scan") =>
                /\ DOMAIN swept'[th] = TooOld(sweptAt[th], DefaultMaxAge)
                /\ sessions' = sessions
                /\ client' = client
          /\ (Sweeping(th) /\ Leaves(th, "rm_pop")) =>
                /\ rtok[th] \in DOMAIN swept[th]
                /\ rtok[th] \notin DOMAIN sessions'
                /\ \A t \in DOMAIN sessions \ {rtok[th]} :
                      t \in DOMAIN sessions' /\ sessions'[t] = sessions[t]
                /\ client' = client
          /\ (Sweeping(th) /\ Leaves(th, "rm_close")) =>
                /\ sessions' = sessions
                /\ popped[th] = swept[th][rtok[th]]
                /\ client'[popped[th]] = "closed"
                /\ \A c \in Conns \ {popped[th]} : client'[c] = client[c]
          /\ (kind[th] = "connect" /\ pc[th] \in {"cl_scan", "rm_pop", "rm_close"}
              /\ pc'[th] = "done") =>
                \A t \in DOMAIN swept'[th] :
                    /\ t \notin DOMAIN sessions'
                    /\ \/ client'[swept'[th][t]] = "closed"
                       \/ \E o \in Threads \ {th} :
                             pc[o] = "rm_close" /\ popped[o] = swept'[th][t]]_vars

\* C4 witness: a cleanup has returned after removing a session, and a session
\* whose age was exactly max_age when the cutoff was taken is still
\* registered with its client open.
C4_BoundaryKept ==
    \E th \in Threads :
        /\ pc[th] = "done"
        /\ kind[th] = "connect"
        /\ DOMAIN swept[th] # {}
        /\ \A t \in DOMAIN swept[th] : client[swept[th][t]] = "closed"
        /\ \E t \in DOMAIN sessions :
              /\ sweptAt[th] - sessions[t].created_at = DefaultMaxAge
              /\ client[sessions[t].client] = "open"

\* C5 as stated: cleanup never detaches a session, nor closes its client,
\* while a command is in flight on it (its lock is held).
C5_SweepSparesBusy ==
    [][\A th \in Threads :
          /\ (Sweeping(th) /\ Leaves(th, "rm_pop") /\ pc'[th] = "rm_close") =>
                lock[popped'[th]] = NoThread
          /\ (Sweeping(th) /\ Leaves(th, "rm_close")) =>
                lock[popped[th]] = NoThread]_vars

\* C5 as amended: cleanup neither tests nor takes a session lock: the pop and
\* the close of each remove can be taken whoever holds the session's lock,
\* they leave every lock as it is, and the close closes the client also
\* while a command is in flight on it.
C5_SweepIgnoresLock ==
    /\ [](\A th \in Threads :
             /\ (Sweeping(th) /\ pc[th] = "rm_pop") => ENABLED RemovePop(th)
             /\ (Sweeping(th) /\ pc[th] = "rm_close") =>
                   ENABLED RemoveClose(th, FALSE))
    /\ [][\A th \in Threads :
             (Sweeping(th) /\ pc'[th] # pc[th]) =>
                 /\ lock' = lock
                 /\ Leaves(th, "rm_close") => client'[popped[th]] = "closed"]_vars

\* C5 witness: a command is in flight on a session that a cleanup has swept
\* and whose client it has closed.
C5_SweptWhileBusy ==
    \E th, o \in Threads :
        /\ th # o
        /\ pc[o] = "x_run"
        /\ lock[cn[o]] = o
        /\ client[cn[o]] = "closed"
        /\ kind[th] = "connect"
        /\ tok[o] \in DOMAIN swept[th]

\* C6 as stated: when /send, /info or /signals answers that the command
\* failed, the session is no longer registered and its client is closed.
C6_FailureRemovesSession ==
    \A th \in Threads :
        (pc[th] = "done" /\ res[th] = "command_failed") =>
            /\ tok[th] \notin DOMAIN sessions
            /\ client[cn[th]] = "closed"

\* A thread that holds a lock is never blocked: it is at a step that needs no
\* other lock.
HoldsSessionLock(th) == \E c \in Conns : lock[c] = th

\* C7: no thread holds the registry lock together with a session lock, the
\* registry lock is held only across the registry operation itself (never
\* while a command executes or a lock is awaited), and whoever holds a lock
\* can take its next step, so the two kinds of lock cannot deadlock.
C7_LockDiscipline ==
    \A th \in Threads :
        /\ storeLock = th =>
              /\ ~HoldsSessionLock(th)
              /\ pc[th] \in {"add_put", "cl_scan", "rm_pop", "get_lookup"}
        /\ HoldsSessionLock(th) => pc[th] \in {"x_start", "x_run"}
        /\ (storeLock = th \/ HoldsSessionLock(th)) => ENABLED Step(th)

\* C7 witness: commands are in flight on two different sessions at once.
C7_TwoSessionsBusy ==
    \E a, b \in Threads :
        /\ pc[a] = "x_run"
        /\ pc[b] = "x_run"
        /\ cn[a] # cn[b]
        /\ storeLock = NoThread

\* C8 as stated: whenever a command executes on a client, preview included,
\* the executing thread holds that session's lock.
C8_EveryCommandLocked ==
    \A th \in Threads : \A c \in Conns : Executing(th, c) => lock[c] = th

\* C8 as amended: a command of /send, /info or /signals executes only with
\* the session's lock held by the executing thread; the preview command of
\* /connect executes without any lock, on a client that is not registered yet
\* and that no other thread refers to.
C8_SessionCommandsLocked ==
    \A th \in Threads :
        /\ pc[th] = "x_run" => lock[cn[th]] = th
        /\ pc[th] = "c_previewing" =>
              /\ lock[cn[th]] = NoThread
              /\ ~Registered(cn[th])
              /\ \A o \in Threads \ {th} : ~Refers(o, cn[th])

\* C8 witness: a session command runs under its lock while a preview runs
\* on a new client without one.
C8_LockedAndPreview ==
    \E a, b \in Threads :
        /\ pc[a] = "x_run"
        /\ lock[cn[a]] = a
        /\ pc[b] = "c_previewing"

\* A thread inside a command of its handler: waiting for the session lock,
\* holding it, or with the command (or the preview) in flight.
InCommand(th) == pc[th] \in {"x_lock", "x_start", "x_run", "c_previewing"}

C10_DetachThenClose ==
    /\ [](\A th \in Threads :
             /\ pc[th] = "rm_close" =>
                   popped[th] # NoConn /\ ~Registered(popped[th])
             /\ pc[th] = "c_previewing" => ~Registered(cn[th]))
    /\ [][\A th \in Threads : Leaves(th, "rm_close") =>
             /\ sessions' = sessions
             /\ pc'[th] \in {"done", "rm_lock"}
             /\ res'[th] \in {"none", "token", "command_failed", "disconnected"}]_vars

\* C10 witness: a /disconnect has returned after popping a session and
\* closing its client.
C10_RemovedAndClosed ==
    \E th \in Threads : \E c \in Conns :
        /\ pc[th] = "done"
        /\ kind[th] = "disconnect"
        /\ res[th] = "disconnected"
        /\ tok[th] \in removed
        /\ client[c] = "closed"
        /\ ~Registered(c)

\* The tokens whose add has drawn them but not stored the session yet.
BeingAdded == {tok[th] : th \in {x \in Threads : pc[x] \in {"add_lock", "add_put"}}}

\* C11: the registry holds exactly the sessions that add has stored and no
\* remove (called directly or by cleanup) has popped, each under its own
\* token and with the client and interface of the request that created it.
\* add stores the session it built from its arguments; an entry is never
\* changed while it stays registered; get of a registered token returns that
\* session.
C11_RegistryExact ==
    /\ [](/\ DOMAIN sessions = issued \ (removed \cup BeingAdded)
          /\ \A t \in DOMAIN sessions :
                /\ sessions[t].token = t
                /\ sessions[t].client \in Conns
                /\ sessions[t].interface = Ifaces[sessions[t].client]
          /\ \A t, u \in DOMAIN sessions :
                sessions[t].client = sessions[u].client => t = u)
    /\ [][/\ \A t \in DOMAIN sessions \cap DOMAIN sessions' :
               sessions'[t] = sessions[t]
          /\ \A th \in Threads :
               /\ Leaves(th, "add_put") =>
                     sessions'[tok[th]] =
                         [token |-> tok[th], client |-> cn[th],
                          interface |-> iface[th], created_at |-> created[th]]
               /\ (Leaves(th, "get_lookup") /\ tok[th] \in DOMAIN sessions) =>
                     /\ cn'[th] = sessions[tok[th]].client
                     /\ pc'[th] = "x_lock"]_vars

\* C11 witness: after one session was removed, a request has looked up the
\* other one, created for interface lte2, and got that session.
C11_GetReturnsCreated ==
    \E th \in Threads :
        /\ pc[th] = "x_lock"
        /\ tok[th] \in DOMAIN sessions
        /\ sessions[tok[th]].interface = "lte2"
        /\ cn[th] = sessions[tok[th]].client
        /\ removed # {}

\* Thread th is in a lookup or in a command of /send, /info or /signals.
Using(th) == pc[th] \in {"get_lock", "get_lookup", "x_lock", "x_start", "x_run"}

\* C12: no step of get, nor of a command run on the session it returned,
\* changes the registry: created_at stays the time of creation however often
\* the session is used. The scan of a cleanup therefore selects every session
\* older than max_age at the time of its cutoff, used or not.
C12_NoSlidingExpiry ==
    [][\A th \in Threads :
          /\ (Using(th) /\ pc'[th] # pc[th]) => sessions' = sessions
          /\ Leaves(th, "cl_scan") =>
                \A t \in DOMAIN sessions :
                    (sweptAt[th] - sessions[t].created_at > DefaultMaxAge)
                        => t \in DOMAIN swept'[th]]_vars

\* C12 witness: a request has been served on a session older than max_age,
\* and a cleanup that ran then has selected that session all the same.
C12_UsedThenSwept ==
    \E th, o \in Threads :
        /\ kind[th] = "connect"
        /\ pc[o] = "done"
        /\ res[o] \in {"output", "info", "snapshot"}
        /\ tok[o] \in DOMAIN swept[th]

\* Thread th is inside /connect with the client it opened, before add has
\* stored the session.
Creating(th, c) ==
    cn[th] = c /\ pc[th] \in {"c_previewing", "c_add", "add_lock", "add_put"}

\* C13: a /connect whose paramiko connect fails opens no client, draws no
\* token and changes nothing; one whose preview command fails closes the
\* client it opened, draws no token and leaves the registry as it was. Both
\* answer an error. Hence an open client is always that of a registered
\* session, or of a /connect that has not stored its session yet, or of a
\* session a remove has popped and is about to close.
C13_FailedCreateLeavesNothing ==
    /\ [][\A th \in Threads :
             /\ (pc[th] = "idle" /\ res'[th] = "connect_failed") =>
                   /\ UNCHANGED <<sessions, client, closes, issued>>
                   /\ tok'[th] = NoToken
                   /\ cn'[th] = NoConn
             /\ (pc[th] = "c_previewing" /\ res'[th] = "preview_failed") =>
                   /\ UNCHANGED <<sessions, issued>>
                   /\ tok'[th] = NoToken
                   /\ client[cn[th]] = "open"
                   /\ client'[cn[th]] = "closed"
                   /\ \A c \in Conns \ {cn[th]} : client'[c] = client[c]]_vars
    /\ [](\A th \in Threads :
             (pc[th] = "done" /\ res[th] \in {"connect_failed", "preview_failed"}) =>
                 /\ kind[th] = "connect"
                 /\ tok[th] = NoToken
                 /\ \A t \in DOMAIN sessions : sessions[t].client # cn[th])
    /\ [](\A c \in Conns :
             client[c] = "open" =>
                 \/ Registered(c)
                 \/ \E th \in Threads : Creating(th, c)
                 \/ \E th \in Threads : pc[th] = "rm_close" /\ popped[th] = c)

\* C13 witness: a /connect has answered that its preview failed; the client
\* it opened is closed, and the session of an earlier /connect is registered.
C13_PreviewFailedClosed ==
    \E th \in Threads :
        /\ pc[th] = "done"
        /\ res[th] = "preview_failed"
        /\ client[cn[th]] = "closed"
        /\ DOMAIN sessions # {}

\* C14: a /connect request without one of host, username, password and
\* interface, a /send request without token or without command, and an /info
\* or /signals request without token are answered with an error in their
\* first step: no client is opened, used or closed, no lock is taken and the
\* registry is left as it was.
C14_MalformedRejectedFirst ==
    [][\A th \in Threads :
          (\/ \E ok \in BOOLEAN : Connect(th, FALSE, ok, NextIface)
           \/ \E k \in {"send", "info", "signals"}, h \in BOOLEAN :
                 Request(th, k, NoToken, h)
           \/ \E t \in Tokens : Request(th, "send", t, FALSE))
          => /\ pc'[th] = "done"
             /\ res'[th] = "missing_fields"
             /\ cn'[th] = NoConn
             /\ UNCHANGED shared]_vars

\* C14 witness: a /send that names a registered session but carries no
\* command has been rejected; the session is registered, its client open.
C14_SendWithoutCommand ==
    \E th \in Threads :
        /\ pc[th] = "done"
        /\ kind[th] = "send"
        /\ res[th] = "missing_fields"
        /\ tok[th] \in DOMAIN sessions
        /\ client[sessions[tok[th]].client] = "open"

\* C15: /send, /info and /signals with a token that is not registered (never
\* issued, removed, or expired and swept) answer "session not found or
\* expired": from the arrival of the request to that answer no client is
\* used, no session lock is taken and the registry is left as it was.
C15_UnknownTokenNotFound ==
    /\ [][\A th \in Threads :
             /\ (Leaves(th, "get_lookup") /\ tok[th] \notin DOMAIN sessions) =>
                   /\ pc'[th] = "done"
                   /\ res'[th] = "not_found"
                   /\ cn'[th] = NoConn
             /\ (pc[th] \in {"idle", "get_lock", "get_lookup"}
                 /\ pc'[th] # pc[th]
                 /\ kind'[th] \in {"send", "info", "signals"}) =>
                   UNCHANGED <<sessions, client, lock, closes>>]_vars
    /\ [](\A th \in Threads :
             (pc[th] = "done" /\ res[th] = "not_found") =>
                 /\ kind[th] \in {"send", "info", "signals"}
                 /\ cn[th] = NoConn
                 /\ ~HoldsSessionLock(th))

\* C15 witness: a request whose token belonged to a session that a cleanup
\* has swept has been answered "not found".
C15_SweptTokenNotFound ==
    \E th, o \in Threads :
        /\ pc[th] = "done"
        /\ res[th] = "not_found"
        /\ kind[o] = "connect"
        /\ tok[th] \in DOMAIN swept[o]
        /\ tok[th] \notin DOMAIN sessions

\* C16: /disconnect always answers "disconnected". With a token that is not
\* registered (already removed, or never issued) or with no token its remove
\* pops nothing: the registry, every client and every lock stay as they were
\* and close is not called, so that the state after a second call is the
\* state after the first. No client is ever closed twice.
C16_DisconnectIdempotent ==
    /\ [][\A th \in Threads :
             /\ (kind[th] = "disconnect" /\ Leaves(th, "rm_pop")
                 /\ rtok[th] \notin DOMAIN sessions) =>
                   /\ pc'[th] = "done"
                   /\ res'[th] = "disconnected"
                   /\ UNCHANGED <<sessions, client, closes, lock>>
             /\ (pc[th] = "idle" /\ kind'[th] = "disconnect" /\ tok'[th] = NoToken) =>
                   /\ pc'[th] = "done"
                   /\ res'[th] = "disconnected"
                   /\ UNCHANGED shared]_vars
    /\ [](\A th \in Threads :
             (pc[th] = "done" /\ kind[th] = "disconnect") => res[th] = "disconnected")
    /\ [](\A c \in Conns : closes[c] <= 1)

\* C16 witness: two /disconnect calls with the same token have both answered
\* "disconnected"; the session is gone and its client was closed once.
C16_TwiceDisconnected ==
    \E a, b \in Threads :
        /\ a # b
        /\ pc[a] = "done" /\ pc[b] = "done"
        /\ kind[a] = "disconnect" /\ kind[b] = "disconnect"
        /\ res[a] = "disconnected" /\ res[b] = "disconnected"
        /\ tok[a] = tok[b]
        /\ tok[a] \in removed
        /\ \E c \in Conns : client[c] = "closed" /\ closes[c] = 1

\* The positions of s that hold something else than whitespace.
Inked(s) == {i \in 1..Len(s) : s[i] \notin Whitespace}

\* s without its leading and trailing whitespace.
Trimmed(s) ==
    IF Inked(s) = {} THEN <<>>
    ELSE SubSeq(s, CHOOSE i \in Inked(s) : \A j \in Inked(s) : i <= j,
                   CHOOSE i \in Inked(s) : \A j \in Inked(s) : i >= j)

\* What one character of the trimmed command becomes inside the quotes: a
\* carriage return nothing, a line feed one space, a backslash and a double
\* quote themselves after a backslash.
Quoted(ch) ==
    CASE ch = "\r" -> <<>>
      [] ch = "\n" -> <<" ">>
      [] ch = "\\" -> <<"\\", "\\">>
      [] ch = "\"" -> <<"\\", "\"">>
      [] OTHER -> <<ch>>

RECURSIVE QuotedAll(_)
QuotedAll(s) == IF s = <<>> THEN <<>> ELSE Quoted(Head(s)) \o QuotedAll(Tail(s))

\* /interface lte at-chat <interface> input="<e>"
VendorString(interface, e) ==
    <<"/", "i", "n", "t", "e", "r", "f", "a", "c", "e", " ">>
    \o <<"l", "t", "e", " ">> \o <<"a", "t", "-", "c", "h", "a", "t", " ">>
    \o interface \o <<" ">> \o <<"i", "n", "p", "u", "t", "=">>
    \o <<"\"">> \o e \o <<"\"">>

HasLineBreak(s) == \E i \in 1..Len(s) : s[i] \in {"\r", "\n"}

\* C17 as stated: for every interface name and AT command the wrapper
\* returns /interface lte at-chat <interface> input="<E>", E being the
\* trimmed command with carriage returns deleted, line feeds turned into
\* spaces and backslashes and double quotes escaped; and the result holds no
\* carriage return and no line feed.
C17_SingleLineAlways ==
    ret.done =>
        /\ ret.value = VendorString(call.interface, QuotedAll(Trimmed(call.at_cmd)))
        /\ ~HasLineBreak(ret.value)

\* C17 as amended: the result is that string; E holds no carriage return and
\* no line feed, and the interface name is inserted as given, so that the
\* result holds a carriage return or a line feed exactly when the interface
\* name does.
C17_TemplateAroundCleaned ==
    ret.done =>
        /\ ret.value = VendorString(call.interface, QuotedAll(Trimmed(call.at_cmd)))
        /\ ~HasLineBreak(QuotedAll(Trimmed(call.at_cmd)))
        /\ HasLineBreak(ret.value) <=> HasLineBreak(call.interface)

\* C17 witness: the wrapper has returned for a command with a line feed
\* between two letters and an interface name with a line feed inside.
C17_LineBreaksInBoth ==
    /\ ret.done
    /\ call.at_cmd = <<"A", "\n", "A">>
    /\ call.interface = <<"l", "\n", "x">>
    /\ HasLineBreak(ret.value)

\* What stands between the double quotes of a string the wrapper returned
\* for interface name `interface`.
Argument(interface, v) ==
    SubSeq(v, Len(TemplateHead) + Len(interface) + Len(TemplateInput) + 1,
              Len(v) - 1)

\* Every backslash of s starts an escape of a backslash or of a double quote,
\* and s has no double quote outside such an escape.
RECURSIVE WellEscaped(_)
WellEscaped(s) ==
    IF s = <<>> THEN TRUE
    ELSE IF Head(s) = "\\"
         THEN /\ Len(s) >= 2
              /\ s[2] \in {"\\", "\""}
              /\ WellEscaped(Tail(Tail(s)))
    ELSE Head(s) # "\"" /\ WellEscaped(Tail(s))

\* Un-escaping: \\ becomes \, \" becomes ".
RECURSIVE Unescaped(_)
Unescaped(s) ==
    IF s = <<>> THEN <<>>
    ELSE IF Head(s) = "\\" /\ Len(s) >= 2
         THEN <<s[2]>> \o Unescaped(Tail(Tail(s)))
    ELSE <<Head(s)>> \o Unescaped(Tail(s))

\* The number of places of v at which s occurs.
Occurrences(s, v) ==
    Cardinality({i \in 1..(Len(v) - Len(s) + 1) : SubSeq(v, i, i + Len(s) - 1) = s})

\* C18: between the quotes of the returned string every backslash and every
\* double quote of the cleaned command stands behind an escaping backslash
\* and nothing else is escaped; un-escaping gives back the cleaned command;
\* commands that differ after cleaning give different strings. For lte1 and
\* AT^TEST="x" the string is /interface lte at-chat lte1 input="AT^TEST=\"x\""
\* and holds lte1 once.
C18_EscapeRoundTrips ==
    ret.done =>
        LET arg == Argument(call.interface, ret.value) IN
        /\ WellEscaped(arg)
        /\ Unescaped(arg) = Clean(call.at_cmd)
        /\ Len(arg) = Len(Clean(call.at_cmd))
               + Cardinality({i \in 1..Len(Clean(call.at_cmd)) :
                                 Clean(call.at_cmd)[i] \in {"\\", "\""}})
        /\ \A other \in AtCmds :
              Clean(other) # Clean(call.at_cmd) =>
                  build_ros_at_chat_cmd(call.interface, other) # ret.value
        /\ (call.interface = Lte1 /\ call.at_cmd = CmdTestX) =>
              /\ ret.value =
                    TemplateHead \o Lte1 \o TemplateInput
                    \o <<"A", "T", "^", "T", "E", "S", "T", "=">>
                    \o <<"\\", "\"", "x", "\\", "\"">> \o <<"\"">>
              /\ Occurrences(Lte1, ret.value) = 1

\* C18 witness: the wrapper has returned for a command made of a backslash,
\* a double quote and a letter.
C18_BackslashAndQuote ==
    /\ ret.done
    /\ call.at_cmd = <<"\\", "\"", "A">>
    /\ Argument(call.interface, ret.value) = <<"\\", "\\", "\\", "\"", "A">>

TopLevelFields == {"rat", "mccmnc", "tac", "cell_id"}

\* C19 as stated: once one of rat, mccmnc, tac, cell_id has a value other
\* than "-", no later line changes it.
C19_FirstOccurrenceWins ==
    [][\A f \in TopLevelFields :
          parser.info[f] # Dash => parser'.info[f] = parser.info[f]]_vars

\* A text whose second rat:, mcc/mnc, cell id or tac line has replaced the
\* value of the first has been parsed.
C19_LaterLineReplaced ==
    /\ ret.done
    /\ Len(call.text) >= 2
    /\ call.text[1] = Line("rat:", "LTE", <<>>)
    /\ ret.value.rat = <<"NR">>

\* The display is a number followed by the unit.
Numeric(d, unit) == d.text = "number" /\ d.unit = unit

\* C20 as stated: for RSRP, RSRQ and SINR given as numbers with their unit
\* suffix (0 and the thresholds included) the label is that of the first
\* matching row: RSRP >= -90 and SINR >= 10 Ottimo; RSRP >= -105 and
\* RSRQ >= -14 Buono; RSRP >= -115 Discreto; otherwise Debole. An RSRP display
\* that does not end in dBm gives "-" whatever the other two are. "-88dBm",
\* "-9dB", "12dB" give Ottimo.
C20_OrderedTable ==
    ret.done =>
        /\ (Numeric(call.rsrp, "dBm") /\ Numeric(call.rsrq, "dB") /\ Numeric(call.snr, "dB")) =>
              ret.value =
                  IF call.rsrp.num >= -90 /\ call.snr.num >= 10 THEN "Ottimo"
                  ELSE IF call.rsrp.num >= -105 /\ call.rsrq.num >= -14 THEN "Buono"
                  ELSE IF call.rsrp.num >= -115 THEN "Discreto"
                  ELSE "Debole"
        /\ call.rsrp.unit # "dBm" => ret.value = "-"
        /\ (call.rsrp = Display("number", -88, "dBm")
            /\ call.rsrq = Display("number", -9, "dB")
            /\ call.snr = Display("number", 12, "dB")) => ret.value = "Ottimo"

\* An RSRQ of 0 dB with an RSRP of -104 dBm and a SINR of 9 dB has been rated
\* Discreto, as if the RSRQ were missing.
C20_ZeroRsrqRatedFair ==
    /\ ret.done
    /\ call.rsrp = Display("number", -104, "dBm")
    /\ call.rsrq = Display("number", 0, "dB")
    /\ call.snr = Display("number", 9, "dB")
    /\ ret.value = "Discreto"

\* The excellent row matches: RSRP >= -90 and a SINR that is there and >= 10.
Excellent(rsrp, snr) ==
    rsrp.num >= -90 /\ Numeric(snr, "dB") /\ snr.num >= 10

\* C21 as stated: when the RSRQ display lacks the dB suffix ("-" included),
\* the RSRP is a number of dBm >= -105 and the excellent row does not match,
\* the label is Buono.
C21_AbsentRsrqIsGood ==
    (/\ ret.done
     /\ call.rsrq.unit # "dB"
     /\ Numeric(call.rsrp, "dBm")
     /\ call.rsrp.num >= -105
     /\ Numeric(call.snr, "dB") \/ call.snr.unit # "dB"
     /\ ~Excellent(call.rsrp, call.snr))
    => ret.value = "Buono"

\* An RSRP of -104 dBm with RSRQ "-" and a SINR of 9 dB has been rated
\* Discreto.
C21_AbsentRsrqRatedFair ==
    /\ ret.done
    /\ call.rsrp = Display("number", -104, "dBm")
    /\ call.rsrq = NoDisplay
    /\ call.snr = Display("number", 9, "dB")
    /\ ret.value = "Discreto"

\* The thread's request is /signals before or after the step.
Signals(th) == kind[th] = "signals" \/ kind'[th] = "signals"

\* The step hands a command of the thread to the client (exec_command).
Issues(th) == ExecStart(th) /\ pc'[th] = "x_run"

\* The step is a failure of the thread's command: exec_command raises, or
\* the reads raise.
Fails(th) == ExecFinish(th, FALSE) \/ (ExecStart(th) /\ pc'[th] # "x_run")

\* C27: /signals issues ATI, AT^DEBUG?, AT^TEMP? in that order, each while
\* holding the session lock; the next one is issued only after the one before
\* it returned; a failure answers the error with no further command issued,
\* and the snapshot is answered only after AT^TEMP? returned.
C27_SignalsThreeInOrder ==
    [][\A th \in Threads : Signals(th) =>
        /\ Issues(th) =>
              /\ cmd[th] \in DOMAIN SignalCmds
              /\ lock[cn[th]] = th /\ lock'[cn[th]] = th
        /\ cmd'[th] # cmd[th] =>
              \/ pc[th] = "idle" /\ cmd'[th] = 1
              \/ ExecFinish(th, TRUE) /\ cmd'[th] = cmd[th] + 1
              \/ Respond(th)
        /\ ExecFinish(th, TRUE) =>
              IF SignalCmds[cmd[th]] = "AT^TEMP?"
              THEN res'[th] = "snapshot" /\ pc'[th] = "done"
              ELSE cmd'[th] = cmd[th] + 1 /\ pc'[th] = "x_lock"
        /\ Fails(th) =>
              /\ res'[th] = "command_failed"
              /\ pc'[th] = "done"
              /\ cmd'[th] = cmd[th]
        /\ (res'[th] = "snapshot" /\ res[th] # "snapshot") =>
              ExecFinish(th, TRUE) /\ SignalCmds[cmd[th]] = "AT^TEMP?"
        /\ pc[th] = "done" => pc'[th] \in {"done", "idle"}
      ]_vars

\* A /signals request whose second command failed has answered the error.
C27_SecondCommandFailed ==
    \E th \in Threads :
        /\ kind[th] = "signals"
        /\ pc[th] = "done"
        /\ res[th] = "command_failed"
        /\ SignalCmds[cmd[th]] = "AT^DEBUG?"

\* The values of the tokens of the text whose key is one of keys.
TokensOf(text, keys) ==
    UNION {{text[i].fields[j][2] :
               j \in {k \in DOMAIN text[i].fields : text[i].fields[k][1] \in keys}} :
           i \in DOMAIN text}

\* The text is a number as the vendor writes one: an optional minus, digits,
\* and possibly a point followed by digits.
WellFormedNumber(v) ==
    LET body == IF v # <<>> /\ Head(v) = "-" THEN Tail(v) ELSE v
        int  == Matched(body, DigitChars)
        r    == SubSeq(body, Len(int) + 1, Len(body))
    IN /\ int # <<>>
       /\ \/ r = <<>>
          \/ /\ Len(r) >= 2
             /\ r[1] = "."
             /\ \A i \in 2..Len(r) : r[i] \in DigitChars

\* The token is malformed: the signs, digits and points it starts with are not
\* a number (abc, -, 1.2.3). A unit after the number (-11dB) does not make
\* the token malformed.
Malformed(v) == ~WellFormedNumber(Matched(v, NumberChars))

\* The keys the tokens of each metric come under, and its top-level value.
MetricKeys ==
    [rsrp |-> {"lte_rsrp", "nr_rsrp"}, rsrq |-> {"rsrq", "nr_rsrq"},
     rssi |-> {"lte_rssi", "nr_rssi"}, snr |-> {"lte_snr", "nr_snr"}]

ValueKeys ==
    [rsrp |-> "rsrp_value", rsrq |-> "rsrq_value", rssi |-> "rssi_value",
     snr |-> "snr_value"]

\* The metric of a finalized entry.
MetricOf(detail, key) ==
    detail.metrics[CHOOSE i \in DOMAIN detail.metrics : detail.metrics[i].key = key]

\* C22: what the parser returns is a snapshot with all its fields, whatever
\* the text (no step of the parser raises: _to_float turns the error of
\* float() into None); when every token of a metric in the text is malformed
\* (abc, -, 1.2.3) or there is none, the metric is absent in every entry, the
\* top-level value is None and the top-level display is "-".
C22_MalformedNumbersAbsent ==
    ret.done =>
        /\ DOMAIN ret.value = DOMAIN InfoDefaults
        /\ \A key \in DOMAIN MetricKeys :
              (\A v \in TokensOf(call.text, MetricKeys[key]) : Malformed(v)) =>
                  /\ ret.value[key] = NoDisplay
                  /\ ret.value[ValueKeys[key]] = {}
                  /\ \A i \in DOMAIN ret.value.advanced :
                        /\ MetricOf(ret.value.advanced[i], key).value = {}
                        /\ MetricOf(ret.value.advanced[i], key).display = NotAvailable

\* The text pcell: lte_band:3 / lte_rsrp:abc rsrq:- has been parsed: one
\* entry, its rsrp and rsrq absent, both top-level displays "-".
C22_AbcParsed ==
    /\ ret.done
    /\ call.text = <<PcellBand3, LteRsrpAbc>>
    /\ Len(ret.value.advanced) = 1
    /\ MetricOf(ret.value.advanced[1], "rsrp").value = {}
    /\ MetricOf(ret.value.advanced[1], "rsrq").value = {}
    /\ ret.value.rsrp = NoDisplay
    /\ ret.value.rsrq = NoDisplay

\* The finalized entries that have a band.
WithBand(entries) == {i \in DOMAIN entries : Truthy(entries[i].band)}

\* The first of the entries whose band, prefixed if need be, is b.
FirstWithBand(entries, b) ==
    CHOOSE i \in WithBand(entries) :
        /\ NormalizedBand(entries[i]) = b
        /\ \A j \in WithBand(entries) : NormalizedBand(entries[j]) = b => i <= j

\* C23: info["bands"] is "-" when no finalized entry has a band; otherwise its
\* items, separated by " + ", are the bands of the entries that have one, an
\* NR band that does not start with n prefixed with n, each band once, in the
\* order in which the bands first come in the entries.
C23_BandDisplay ==
    ret.done =>
        LET entries == ret.value.advanced
            items   == Split(ret.value.bands, " + ")
        IN IF WithBand(entries) = {} THEN ret.value.bands = Dash
           ELSE /\ \A i, j \in DOMAIN items : items[i] = items[j] => i = j
                /\ {items[i] : i \in DOMAIN items}
                      = {NormalizedBand(entries[i]) : i \in WithBand(entries)}
                /\ \A i, j \in DOMAIN items :
                      i < j => FirstWithBand(entries, items[i])
                                  < FirstWithBand(entries, items[j])
                /\ \A i \in WithBand(entries) :
                      entries[i].technology = "NR" =>
                          Head(NormalizedBand(entries[i])) \in {"n", "N"}

\* nr_band:78, nr_band:n78, pcell: lte_band:3 ... has been parsed to the band
\* display "n78 + 3".
C23_PrefixedOnceThenLte ==
    /\ ret.done
    /\ call.text = <<NrBand78, NrBandN78, PcellBand3>>
    /\ ret.value.bands = <<"n", "7", "8", " + ", "3">>

\* The items the channel display is to have: one for each entry that has a
\* channel, the channel and, if the entry has a band, the band in brackets.
RECURSIVE ChannelItems(_)
ChannelItems(entries) ==
    IF entries = <<>> THEN <<>>
    ELSE LET entry == Head(entries) IN
         IF entry.channel = Dash THEN ChannelItems(Tail(entries))
         ELSE <<entry.channel
                 \o (IF Truthy(entry.band)
                     THEN <<" (">> \o NormalizedBand(entry) \o <<")">>
                     ELSE <<>>)>>
              \o ChannelItems(Tail(entries))

\* C24 as stated: info["channels"] has one item for each finalized entry that
\* has a channel, in entry order and with repetitions, joined with " + ";
\* entries without a channel are skipped, and it is "-" when no entry has a
\* channel.
C24_ChannelDisplay ==
    ret.done =>
        ret.value.channels =
            IF ChannelItems(ret.value.advanced) = <<>> THEN Dash
            ELSE Join(ChannelItems(ret.value.advanced), " + ")

\* pcell: lte_band:3 lte_band_width:20MHz alone has been parsed: its entry
\* has no channel, and the channel display is "- (3)".
C24_DashListed ==
    /\ ret.done
    /\ call.text = <<PcellBand3>>
    /\ Len(ret.value.advanced) = 1
    /\ ret.value.advanced[1].channel = Dash
    /\ ret.value.channels = <<"-", " (", "3", ")">>

\* The locals after the loop has read the lines of text, starting from p.
RECURSIVE AfterLines(_, _)
AfterLines(p, text) ==
    IF text = <<>> THEN p ELSE AfterLines(ParsedLine(p, Head(text)), Tail(text))

\* What a call that starts from the locals of lines 1383-1389 returns for text.
Snapshot(text) == Finished(AfterLines(Locals, text)).info

\* C25: whatever calls came before, a call returns for its text what a first
\* call returns for it, so that two calls on the same text return equal
\* snapshots; and a snapshot that was returned stays as it was while later
\* calls run.
C25_NoHiddenState ==
    /\ [](/\ ret.done => ret.value = Snapshot(call.text)
          /\ \A i \in DOMAIN returned :
                /\ returned[i].value = Snapshot(returned[i].text)
                /\ (ret.done /\ returned[i].text = call.text) =>
                       returned[i].value = ret.value
                /\ \A j \in DOMAIN returned :
                       returned[i].text = returned[j].text =>
                           returned[i].value = returned[j].value)
    /\ [][\A i \in DOMAIN returned :
             i \in DOMAIN returned' /\ returned'[i] = returned[i]]_vars

\* scell: lte_band:7 twice has been parsed, then lte_tx_pwr:10, then the first
\* text again, with the snapshot of the first call.
C25_ParsedAgainAfterAnother ==
    /\ ret.done
    /\ Len(returned) = 2
    /\ call.text = <<ScellBand7, ScellBand7>>
    /\ returned[1].text = call.text
    /\ returned[2].text = <<LteTxPwr>>
    /\ returned[1].value = ret.value
    /\ Len(ret.value.advanced) = 2

\* The text of the example: pcell: lte_band:3 lte_band_width:20MHz,
\* channel:1300 pci:55, lte_rsrp:-95 rsrq:-10.
ExampleText == <<PcellBand3, Channel1300, LteRsrp95>>

\* C26: the example text gives exactly one finalized entry: technology LTE,
\* title "Primary 4G (Band 3)", band "3", bandwidth "20MHz", channel "1300",
\* pci "55", rsrp -95.0 and rsrq -10.0 (in hundredths), rssi and sinr absent; the
\* top-level band display is "3".
C26_ExampleEntry ==
    (ret.done /\ call.text = ExampleText) =>
        /\ Len(ret.value.advanced) = 1
        /\ LET detail == ret.value.advanced[1] IN
           /\ detail.technology = "LTE"
           /\ detail.title = <<"Primary 4G", " (", "Band ", "3", ")">>
           /\ detail.band = {<<"3">>}
           /\ detail.bandwidth = <<"2", "0", "M", "H", "z">>
           /\ detail.channel = <<"1", "3", "0", "0">>
           /\ detail.pci = <<"5", "5">>
           /\ MetricOf(detail, "rsrp").value = {-9500}
           /\ MetricOf(detail, "rsrq").value = {-1000}
           /\ MetricOf(detail, "rssi").value = {}
           /\ MetricOf(detail, "snr").value = {}
        /\ ret.value.bands = <<"3">>

\* The example text has been parsed and its entry has the rsrp of its third
\* line.
C26_ExampleParsed ==
    /\ ret.done
    /\ call.text = ExampleText
    /\ Len(ret.value.advanced) = 1
    /\ MetricOf(ret.value.advanced[1], "rsrp").display = Display("number", -9500, " dBm")

\* The header lines of the text, in their order: the prefix of each line that
\* starts, after strip and output: marker, with pcell:, scell: or nr_band:.
RECURSIVE Headers(_)
Headers(text) ==
    IF text = <<>> THEN <<>>
    ELSE (IF Normalized(Head(text)).start \in DOMAIN HeaderTechnology
          THEN <<Normalized(Head(text)).start>> ELSE <<>>)
         \o Headers(Tail(text))

\* How the title of the entry of each header begins.
HeaderTitle ==
    [x \in DOMAIN HeaderTechnology |->
        CASE x = "pcell:" -> "Primary 4G"
          [] x = "scell:" -> "CA 4G #"
          [] x = "nr_band:" -> "Primary 5G"]

\* C28 as stated: the finalized entries are as many as the header lines of the
\* text and come in the order of the headers, each with the technology and
\* the role of its header (none when the text has no header line); while the
\* text is read, every header line appends the open entry, if any, to the
\* list and opens a new one.
C28_EntryPerHeader ==
    /\ [](ret.done =>
            /\ Len(ret.value.advanced) = Len(Headers(call.text))
            /\ \A i \in DOMAIN ret.value.advanced :
                  /\ ret.value.advanced[i].technology
                        = HeaderTechnology[Headers(call.text)[i]]
                  /\ ret.value.advanced[i].title[1] = HeaderTitle[Headers(call.text)[i]])
    /\ [][(lines # <<>> /\ Normalized(Head(lines)).start \in DOMAIN HeaderTechnology) =>
             /\ parser'.current_entry # {}
             /\ The(parser'.current_entry).technology
                   = HeaderTechnology[Normalized(Head(lines)).start]
             /\ parser'.advanced_entries =
                   finalize_entry(parser.current_entry, parser.advanced_entries)]_vars

\* pcell: lte_band:3 mcc:222 mnc:10 alone has been parsed: the line went to
\* mccmnc and there is no entry.
C28_HeaderTakenForMccMnc ==
    /\ ret.done
    /\ call.text = <<PcellWithMccMnc>>
    /\ ret.value.advanced = <<>>
    /\ ret.value.mccmnc = <<"2", "2", "2", "/", "1", "0">>

\* The loop is about to read a header line that opens an entry of the
\* technology.
Opening(technology) ==
    /\ call.fn = "parse"
    /\ lines # <<>>
    /\ Normalized(Head(lines)).start \in DOMAIN HeaderTechnology
    /\ HeaderTechnology[Normalized(Head(lines)).start] = technology
    /\ ~(/\ Search(Head(lines).fields, {"mcc"}) # {}
         /\ Search(Head(lines).fields, {"mnc"}) # {})

\* C29 as stated: the entry a pcell: or scell: line opens gets the antennas,
\* the rx diversity and the tx power buffered from the lte_ant_rsrp and
\* lte_tx_pwr lines before it, the entry an nr_band: line opens gets the tx
\* power buffered from the nr_tx_pwr line before it, and the buffers given to
\* an entry are empty afterwards.
C29_BuffersToNextEntry ==
    [][/\ Opening("LTE") =>
            /\ The(parser'.current_entry).antennas = parser.pending_lte_antennas
            /\ The(parser'.current_entry).rx_diversity = parser.pending_lte_diversity
            /\ The(parser'.current_entry).tx_power = parser.pending_lte_tx_power
            /\ parser'.pending_lte_antennas = <<>>
            /\ parser'.pending_lte_diversity = {}
            /\ parser'.pending_lte_tx_power = {}
       /\ Opening("NR") =>
            /\ The(parser'.current_entry).tx_power = parser.pending_nr_tx_power
            /\ parser'.pending_nr_tx_power = {}
      ]_vars

\* lte_tx_pwr:10, scell: lte_band:7 has been parsed: the entry of the scell:
\* line has no tx power and the 10.0 is still in the buffer.
C29_ScellLeftBuffer ==
    /\ ret.done
    /\ call.text = <<LteTxPwr, ScellBand7>>
    /\ Len(ret.value.advanced) = 1
    /\ ret.value.advanced[1].tx_power = EmptyDisplay
    /\ parser.pending_lte_tx_power = {1000}

\* The technology whose field lines (channel/pci, bandwidth, rsrp, rsrq,
\* rssi, snr) start as the line does, if any.
FieldLineOf(line) ==
    {t \in DOMAIN EntryPrefixes : Normalized(line).start \in EntryPrefixes[t]}

MetricOrder ==
    << <<"rsrq", "RSRQ", "SS_RSRQ", " dB">>, <<"rsrp", "RSRP", "SS_RSRP", " dBm">>,
       <<"rssi", "RSSI", "RSSI", " dBm">>, <<"snr", "SINR", "SS_SINR", " dB">> >>

\* v is the value raw rounded to one decimal: a whole number of tenths, the
\* nearest to raw (both in hundredths).
RoundedTo(v, raw) ==
    \/ raw = {} /\ v = {}
    \/ /\ raw # {} /\ v # {}
       /\ The(v) % 10 = 0
       /\ The(v) - The(raw) \in -5..5

\* The title C31 gives the entry, without and with its band.
TitleOf(entry, with_band) ==
    LET lte  == entry.technology = "LTE"
        base == IF ~lte THEN <<"Primary 5G">>
                ELSE IF entry.role = "secondary"
                THEN <<"CA 4G #">> \o Decimal(The(entry.ca_index))
                ELSE <<"Primary 4G">>
    IN IF with_band
       THEN base \o <<" (">> \o (IF lte THEN <<"Band ">> ELSE <<>>)
                 \o The(entry.band) \o <<")">>
       ELSE base

\* detail is entry finalized as C31 says, its title with the band exactly
\* when with_band.
FinalizedAs(entry, detail, with_band) ==
    /\ Len(detail.metrics) = Len(MetricOrder)
    /\ \A i \in DOMAIN MetricOrder :
          LET m == detail.metrics[i]
              key == MetricOrder[i][1]
          IN /\ m.key = key
             /\ m.label = MetricOrder[i][IF entry.technology = "LTE" THEN 2 ELSE 3]
             /\ RoundedTo(m.value, entry[key])
             /\ m.value = {} <=> m.display = NotAvailable
             /\ m.value # {} =>
                   m.display = Display("number", The(m.value), MetricOrder[i][4])
    /\ detail.title = TitleOf(entry, with_band)

\* A step of the parser that finalizes the open entry.
Finalizing ==
    /\ call.fn = "parse"
    /\ ~ret.done
    /\ parser.current_entry # {}
    /\ Len(parser'.advanced_entries) = Len(parser.advanced_entries) + 1

\* C31 as stated: every finalized entry carries the four metrics rsrq, rsrp,
\* rssi, snr in this order, each with the value rounded to one decimal and
\* the display "<value> <unit>", or "N/A" exactly when the value is absent,
\* with the labels of its technology; its title is Primary 4G, CA 4G #k or
\* Primary 5G, followed by the band display in brackets exactly when the entry
\* has a band.
C31_FinalizedEntry ==
    [][Finalizing =>
          FinalizedAs(The(parser.current_entry),
                      parser'.advanced_entries[Len(parser'.advanced_entries)],
                      The(parser.current_entry).band # {})]_vars

\* C31 as amended: the same, the title followed by the band display in
\* brackets exactly when the band display is not "N/A": when the entry has a
\* band and the text of the band is not N/A itself.
C31_FinalizedEntryUnlessNA ==
    [][Finalizing =>
          FinalizedAs(The(parser.current_entry),
                      parser'.advanced_entries[Len(parser'.advanced_entries)],
                      /\ The(parser.current_entry).band # {}
                      /\ The(parser.current_entry).band # {NA})]_vars

\* pcell: lte_band:3 ..., lte_rsrp:-95.27 rsrq:-10.04, nr_band:N/A has been
\* parsed: the LTE entry has rsrp -95.3 and rsrq -10.0, and the NR entry,
\* whose band is N/A, has the title Primary 5G alone.
C31_RoundedAndBandNA ==
    /\ ret.done
    /\ call.text = <<PcellBand3, LteRsrpFine, NrBandNA>>
    /\ Len(ret.value.advanced) = 2
    /\ MetricOf(ret.value.advanced[1], "rsrp").display = Display("number", -9530, " dBm")
    /\ MetricOf(ret.value.advanced[1], "rsrq").value = {-1000}
    /\ ret.value.advanced[2].band = {NA}
    /\ ret.value.advanced[2].title = <<"Primary 5G">>

\* The prefixes the parser tests a line for with startswith.
PatternPrefixes ==
    {"rat:"} \cup BufferPrefixes \cup DOMAIN HeaderTechnology
             \cup EntryPrefixes.LTE \cup EntryPrefixes.NR

\* The keys the patterns of the parser look for; "(" is the bracket of the
\* antenna list.
PatternKeys ==
    {"mcc", "mnc", "rx_diversity", "(", "lte_band", "lte_band_width", "nr_band",
     "channel", "nr_channel", "pci", "nr_pci", "lte_cell_id", "nr_cell_id",
     "lte_tac", "nr_tac", "lte_rsrp", "nr_rsrp", "rsrq", "nr_rsrq",
     "lte_rssi", "nr_rssi", "lte_snr", "nr_snr", "lte_tx_pwr", "nr_tx_pwr"}

\* No pattern matches the line: once stripped and without its output: marker
\* it starts with none of the prefixes and holds no key of a pattern.
Unmatched(raw_line) ==
    LET line == Normalized(raw_line) IN
    /\ line.start \notin PatternPrefixes
    /\ \A i \in DOMAIN line.fields : line.fields[i][1] \notin PatternKeys

\* The text without its i-th line.
Without(text, i) == SubSeq(text, 1, i - 1) \o SubSeq(text, i + 1, Len(text))

\* C32: a line that no pattern matches changes nothing: the round of the loop
\* that reads it leaves info, the open entry, the finalized entries, the
\* counter and the pending buffers as they were, and the snapshot returned for
\* a text with such a line at any position is the one returned for the text
\* without it.
C32_UnmatchedLineIgnored ==
    /\ [](ret.done =>
            \A i \in DOMAIN call.text :
                Unmatched(call.text[i]) => ret.value = Snapshot(Without(call.text, i)))
    /\ [][(call.fn = "parse" /\ lines # <<>> /\ Unmatched(Head(lines))) =>
             parser' = parser]_vars

\* pcell: lte_band:3 ..., foo:1, lte_rsrp:-95 rsrq:-10 has been parsed: the
\* entry of the first line was still open at the third and has its rsrp.
C32_UnknownBetween ==
    /\ ret.done
    /\ call.text = <<PcellBand3, UnknownField, LteRsrp95>>
    /\ Unmatched(call.text[2])
    /\ Len(ret.value.advanced) = 1
    /\ MetricOf(ret.value.advanced[1], "rsrp").value = {-9500}
    /\ ret.value.cell_id = Dash

\* The session the thread holds is the one registered under its token.
StillRegistered(th) ==
    /\ tok[th] \in DOMAIN sessions
    /\ sessions[tok[th]].client = cn[th]

\* C33 as stated: whenever /send, /info or /signals calls exec_command, the
\* session is still registered under the token of the request and its client
\* is open.
C33_StartsOnlyOnLiveSession ==
    [][\A th \in Threads :
          ExecStart(th) => StillRegistered(th) /\ client[cn[th]] = "open"]_vars

\* A handler holds the lock of a session that a remove has detached and
\* closed since the lookup, and is about to call exec_command on it.
C33_AboutToRunOnClosed ==
    \E th \in Threads :
        /\ pc[th] = "x_start"
        /\ lock[cn[th]] = th
        /\ tok[th] \in removed
        /\ ~Registered(cn[th])
        /\ client[cn[th]] = "closed"

\* The threads that have popped the session of client c and not yet closed it.
Detachers(c) == {th \in Threads : popped[th] = c}

\* C34: a client is closed at most once, and a session is held by at most one
\* remove between its pop and its close. A remove whose pop finds the token
\* detaches the session and goes on to close it; a remove whose pop finds
\* nothing (the token is unknown, or another remove, sweep or failed /send
\* has popped it first) changes neither the registry nor any client. The
\* close comes after the pop, on a client that is open and unregistered. And
\* every session that a remove has popped gets its client closed.
C34_ClosedOnceAfterDetach ==
    /\ [](\A c \in Conns : closes[c] <= 1 /\ Cardinality(Detachers(c)) <= 1)
    /\ [][\A th \in Threads :
             /\ Leaves(th, "rm_pop") =>
                   IF rtok[th] \in DOMAIN sessions
                   THEN /\ popped'[th] = sessions[rtok[th]].client
                        /\ pc'[th] = "rm_close"
                        /\ rtok[th] \notin DOMAIN sessions'
                        /\ client' = client
                   ELSE /\ sessions' = sessions
                        /\ client' = client
                        /\ closes' = closes
                        /\ popped'[th] = NoConn
                        /\ pc'[th] # "rm_close"
             /\ Leaves(th, "rm_close") =>
                   /\ ~Registered(popped[th])
                   /\ client[popped[th]] = "open"
                   /\ closes[popped[th]] = 0
                   /\ client'[popped[th]] = "closed"
                   /\ closes'[popped[th]] = 1
                   /\ \A c \in Conns \ {popped[th]} : client'[c] = client[c]]_vars
    /\ \A c \in Conns : (Detachers(c) # {}) ~> (client[c] = "closed")

\* Two removes of the same token at once: one has popped the session and is
\* about to close its client, the other holds the registry lock and is about
\* to pop the token, which is gone.
C34_SecondRemoveFindsNothing ==
    \E th, o \in Threads :
        /\ th # o
        /\ pc[th] = "rm_close"
        /\ popped[th] # NoConn
        /\ client[popped[th]] = "open"
        /\ pc[o] = "rm_pop"
        /\ rtok[o] = rtok[th]
        /\ rtok[o] \notin DOMAIN sessions

\* The age of the session of token t.
Age(t) == now - sessions[t].created_at

\* What C35 says of a step of thread th, the sweep of the session just
\* created left aside: cleanup is entered only from add, in /connect, once the
\* session is stored, and takes its cutoff 1800 s before now; a lookup
\* returns the registered session whatever its age, and exec_command is
\* refused only by a closed client; a token leaves the registry only in the
\* pop of a remove.
LazyStep(th) ==
    /\ (pc'[th] = "cl_begin" /\ pc[th] # "cl_begin") =>
          /\ pc[th] = "add_put"
          /\ kind[th] = "connect"
          /\ tok[th] \in DOMAIN sessions'
    /\ Leaves(th, "cl_begin") => cutoff'[th] = now - DefaultMaxAge
    /\ pc[th] \in {"cl_begin", "cl_lock", "cl_scan"} => kind[th] = "connect"
    /\ (Leaves(th, "get_lookup") /\ tok[th] \in DOMAIN sessions) =>
          /\ cn'[th] = sessions[tok[th]].client
          /\ pc'[th] = "x_lock"
    /\ (ExecStart(th) /\ client[cn[th]] = "open") => pc'[th] = "x_run"
    /\ \A t \in DOMAIN sessions \ DOMAIN sessions' :
          \E o \in Threads : Leaves(o, "rm_pop") /\ rtok[o] = t

\* C35 as stated: expiry is lazy, and the scan that follows an add never
\* selects the session that add has just stored.
C35_SweepSparesNewSession ==
    [][\A th \in Threads :
          /\ LazyStep(th)
          /\ Leaves(th, "cl_scan") => tok[th] \notin DOMAIN swept'[th]]_vars

\* C35 as amended: expiry is lazy, and the scan that follows an add selects
\* the session that add has just stored only when time.time() advanced by more
\* than max_age between the created_at of the session and the cutoff of the
\* scan.
C35_LazyExpiry ==
    [][\A th \in Threads :
          /\ LazyStep(th)
          /\ (Leaves(th, "cl_scan") /\ tok[th] \in DOMAIN swept'[th]) =>
                sweptAt[th] - sessions[tok[th]].created_at > DefaultMaxAge]_vars

\* A command has been run on a session older than max_age that is still
\* registered, its client open.
C35_OldSessionServed ==
    \E th \in Threads :
        /\ pc[th] = "done"
        /\ res[th] = "output"
        /\ StillRegistered(th)
        /\ Age(tok[th]) > DefaultMaxAge
        /\ client[cn[th]] = "open"

\* The threads with a command in flight on the session of client c.
Running(c) == {th \in Threads : pc[th] = "x_run" /\ cn[th] = c}

\* /signals is between two of its commands: one has returned, the next has
\* not got the lock yet.
BetweenCommands(th) == kind[th] = "signals" /\ pc[th] = "x_lock" /\ cmd[th] > 1

\* C36: /signals takes and releases the session lock once for each of its
\* three commands: when a command of /signals returns and another is to
\* follow, the lock is free and /signals has to take it again; while it is
\* between two commands it does not hold the lock; and on no session are two
\* commands in flight at once.
C36_SnapshotCommandsLockedOneByOne ==
    /\ [](\A c \in Conns : Cardinality(Running(c)) <= 1)
    /\ [](\A th \in Threads : BetweenCommands(th) => lock[cn[th]] # th)
    /\ [][\A th \in Threads :
             (kind[th] = "signals" /\ ExecFinish(th, TRUE) /\ cmd[th] < NumSignalCmds) =>
                 /\ lock[cn[th]] = th
                 /\ lock'[cn[th]] = NoThread
                 /\ pc'[th] = "x_lock"
                 /\ cmd'[th] = cmd[th] + 1]_vars

\* /signals has run ATI and waits for the lock to run AT^DEBUG?, while the
\* command of another request on the same session is in flight.
C36_OtherCommandBetween ==
    \E th, o \in Threads :
        /\ th # o
        /\ BetweenCommands(th)
        /\ SignalCmds[cmd[th]] = "AT^DEBUG?"
        /\ pc[o] = "x_run"
        /\ cn[o] = cn[th]
        /\ tok[o] = tok[th]
        /\ lock[cn[th]] = o

\* The request a step of thread th belongs to: its kind and its token (those
\* of the request that arrives, when the thread was idle).
KindOfStep(th) == IF pc[th] = "idle" THEN kind'[th] ELSE kind[th]

TokenOfStep(th) == IF pc[th] = "idle" THEN tok'[th] ELSE tok[th]

\* C37: a step of /send, /info, /signals or /disconnect for token t (lookup,
\* lock, command, the remove of /disconnect and of a failed /send) leaves
\* every session registered under another token as it is: its entry, the
\* state of its client, the number of closes made on it and its lock.
C37_OtherSessionsUntouched ==
    [][\A th \in Threads :
          (/\ pc'[th] # pc[th]
           /\ KindOfStep(th) \in {"send", "info", "signals", "disconnect"}) =>
              \A u \in DOMAIN sessions \ {TokenOfStep(th)} :
                  /\ u \in DOMAIN sessions'
                  /\ sessions'[u] = sessions[u]
                  /\ client'[sessions[u].client] = client[sessions[u].client]
                  /\ closes'[sessions[u].client] = closes[sessions[u].client]
                  /\ lock'[sessions[u].client] = lock[sessions[u].client]]_vars

\* A /disconnect has removed the session of its token and closed its client
\* while a command of another request was in flight on the session of another
\* token, which is registered still, its client open and its lock held.
C37_RemovedBesideBusySession ==
    \E th, o \in Threads :
        /\ pc[th] = "done"
        /\ kind[th] = "disconnect"
        /\ tok[th] \in removed
        /\ pc[o] = "x_run"
        /\ tok[o] # tok[th]
        /\ StillRegistered(o)
        /\ client[cn[o]] = "open"
        /\ lock[cn[o]] = o
        /\ \E c \in Conns \ {cn[o]} : client[c] = "closed"

\* The unit after the number in the top-level display of each metric.
TopLevelUnit == [rsrp |-> "dBm", rsrq |-> "dB", rssi |-> "dBm", snr |-> "dB"]

\* The top-level display of the metric and its value agree.
Consistent(info, key) ==
    /\ info[key] = NoDisplay <=> info[ValueKeys[key]] = {}
    /\ info[ValueKeys[key]] # {} =>
          info[key] = Display("number", The(info[ValueKeys[key]]), TopLevelUnit[key])

\* C38: at the start, after every line and in the snapshot returned, the
\* top-level display of each of rsrp, rsrq, snr, rssi is "-" exactly when its
\* value is None and is otherwise the value followed by the unit; and once
\* the display of a metric is not "-", no line changes the display or the
\* value.
C38_TopLevelMetricsFirstSeen ==
    /\ [](\A key \in DOMAIN TopLevelUnit :
             /\ Consistent(parser.info, key)
             /\ ret.done => Consistent(ret.value, key))
    /\ [][\A key \in DOMAIN TopLevelUnit :
             parser.info[key] # NoDisplay =>
                 /\ parser'.info[key] = parser.info[key]
                 /\ parser'.info[ValueKeys[key]] = parser.info[ValueKeys[key]]]_vars

\* pcell: lte_band:3 ..., lte_rsrp:-95 rsrq:-10, nr_rsrp:-101 ... has been
\* parsed: the top-level rsrp is the -95.0 of the second line, not the -101.0
\* of the third.
C38_FirstRsrpKept ==
    /\ ret.done
    /\ call.text = <<PcellBand3, LteRsrp95, NrRsrp>>
    /\ ret.value.rsrp = Display("number", -9500, "dBm")
    /\ ret.value.rsrp_value = {-9500}
    /\ ret.value.rssi = NoDisplay

\* The line comes to the scell: branch of the loop (line 1457): it opens a
\* secondary entry.
OpensSecondary(raw_line) ==
    LET line == Normalized(raw_line) IN
    /\ line # EmptyLine
    /\ line.start = "scell:"
    /\ ~(Search(line.fields, {"mcc"}) # {} /\ Search(line.fields, {"mnc"}) # {})

\* The records of the secondary entries among the finalized ones, in order.
SecondaryOf(advanced) ==
    SelectSeq(advanced, LAMBDA d : d.technology = "LTE" /\ d.title[1] = "CA 4G #")

\* The title names the entry CA 4G #k.
NumberedAs(detail, k) ==
    LET digits == Decimal(k)
        n == Len(digits)
    IN /\ Len(detail.title) >= 1 + n
       /\ SubSeq(detail.title, 1, 1 + n) = <<"CA 4G #">> \o digits
       /\ Len(detail.title) > 1 + n => detail.title[2 + n] = " ("

\* The secondary entries among advanced are numbered 1, 2, 3, ... in order.
NumberedInOrder(advanced) ==
    \A k \in DOMAIN SecondaryOf(advanced) : NumberedAs(SecondaryOf(advanced)[k], k)

IsHeader(raw_line) == Normalized(raw_line).start \in DOMAIN HeaderTechnology

\* The band a header line names, as the band display writes it (an NR band
\* with its n); none when the line names no band.
HeaderBand(raw_line) ==
    LET line == Normalized(raw_line)
        band == IF line.start = "nr_band:"
                THEN SearchGroup(line.fields, {"nr_band"}, TokenChars)
                ELSE Search(line.fields, {"lte_band"})
    IN IF band = {} THEN {}
       ELSE {NormalizedBand([technology |-> HeaderTechnology[line.start], band |-> band])}

\* The bands the header lines of the text name.
HeaderBands(text) ==
    UNION {HeaderBand(text[i]) : i \in {j \in DOMAIN text : IsHeader(text[j])}}

\* The bands named on the lines of the text that are no header lines.
OtherBands(text) ==
    UNION {SearchGroup(Normalized(text[i]).fields, {"lte_band", "nr_band"}, BandChars) :
              i \in {j \in DOMAIN text : ~IsHeader(text[j]) /\ Normalized(text[j]) # EmptyLine}}

\* The bands of a band display.
Shown(bands) ==
    IF bands = Dash THEN {}
    ELSE {Split(bands, " + ")[i] : i \in DOMAIN Split(bands, " + ")}

\* C40: the band string returned is the one built from the finalized
\* entries: each band in it is the band of a header line, a band named only
\* on lines that are no header lines is not in it, and for a text without
\* header line bands and channels are "-" and advanced is empty, whatever its
\* other lines.
C40_BandsFromEntriesOnly ==
    (call.fn = "parse" /\ ret.done) =>
        /\ ret.value.bands = build_band_display(ret.value.advanced)
        /\ Shown(ret.value.bands) \subseteq HeaderBands(call.text)
        /\ \A band \in OtherBands(call.text) \ HeaderBands(call.text) :
              band \notin Shown(ret.value.bands)
        /\ Headers(call.text) = <<>> =>
              /\ ret.value.bands = Dash
              /\ ret.value.channels = Dash
              /\ ret.value.advanced = <<>>

\* lte_band:20, then pcell: lte_band:3 lte_band_width:20MHz has been parsed:
\* the 20 of the first line is not among the bands returned.
C40_StrayBandDropped ==
    /\ ret.done
    /\ call.text = <<LteBand20, PcellBand3>>
    /\ <<"2", "0">> \in OtherBands(call.text) \ HeaderBands(call.text)
    /\ ret.value.bands = <<"3">>
    /\ Len(ret.value.advanced) = 1
====
